---- MODULE Spec2Model ----
(***************************************************************************)
(* Retrieval engine of the AI tutor backend: the VectorStore (two flat L2  *)
(* indices with their slot -> metadata mappings, saved to and loaded from  *)
(* a directory) and the RAGService that answers a question from it.        *)
(*                                                                         *)
(* FAISS, numpy, json and requests are libraries: they are modelled by     *)
(* what they do at the call sites of the repository.                       *)
(*   IndexFlatL2(d)      an empty flat index of dimension d                *)
(*   index.add(x)        asserts x.shape[1] = d, appends the rows          *)
(*   index.search(q, k)  asserts the query's length = d, scans every row,  *)
(*                       keeps the k nearest; missing results are padded   *)
(*                       with label -1 and the largest float               *)
(*   write_index / read_index   d, ntotal and the flat row array, exactly  *)
(*   json.dump / json.load      object keys are written as strings         *)
(***************************************************************************)
EXTENDS Integers, Sequences, FiniteSets, TLC

VARIABLES
    text_index,      \* VectorStore.text_index: None or a flat index
    image_index,     \* VectorStore.image_index
    chunk_mapping,   \* VectorStore.chunk_mapping: slot -> chunk record
    image_mapping,   \* VectorStore.image_mapping: slot -> image record
    disk,            \* the embeddings directory: its four files
    result,          \* the last call made on the store and how it ended
    builder,         \* a thread inside create_text_index: where it is
    searcher,        \* a thread inside search_text: where it is, its locals
    rag_service,     \* the module global of rag_service.py: None or the instance
    model_loads,     \* SentenceTransformer models constructed in this process
    chats,           \* the /chat requests of the server: where each one is
    api_key,         \* config.OPENROUTER_API_KEY is set
    now,             \* what datetime.now() returns, in seconds
    breaker,         \* a CircuitBreaker: its attributes
    limiter,         \* a RateLimiter: its attributes
    priority_queue,  \* a PriorityQueue: its heap, and QueuedTask._counter
    global_cache,    \* cache.py's _global_cache: its entries
    task_queue,      \* a TaskQueue: its tasks, its asyncio.Queue, its workers
    retry            \* a call of a function wrapped by retry_on_failure

storeVars == <<text_index, image_index, chunk_mapping, image_mapping>>
threadVars == <<builder, searcher>>
appVars == <<rag_service, model_loads, chats, api_key>>
utilVars == <<now, breaker, limiter, priority_queue, global_cache, task_queue, retry>>
vars == <<text_index, image_index, chunk_mapping, image_mapping, disk, result,
          builder, searcher, rag_service, model_loads, chats, api_key,
          now, breaker, limiter, priority_queue, global_cache, task_queue, retry>>

---------------------------------------------------------------------------
(* Bounds of the model *)

\* dimension the store is constructed with (VectorStore(embedding_dim=...))
EmbeddingDim == 1
\* longest embeddings array / id list / record list handed to a build while
\* the store and its directory are followed through builds, saves and loads
MaxVecs == 1
\* longest embeddings array a searched index was built from
MaxRows == 2
\* largest k asked of a search
MaxK == 3

---------------------------------------------------------------------------
(* Python values *)

\* Python's None, where an object reference is expected
None == [none |-> TRUE]

\* how a call ends: it returns a value or raises an exception class
NoError == "none"
Return(v) == [raised |-> NoError, value |-> v]
Raise(e) == [raised |-> e, value |-> None]

Min(a, b) == IF a <= b THEN a ELSE b

---------------------------------------------------------------------------
(* numpy arrays of embeddings: n rows of d columns *)

Array(rows, d) == [n |-> Len(rows), d |-> d, rows |-> rows]

\* vector coordinates
Coords == {0, 1}

Vectors(d) == [1..d -> Coords]

RECURSIVE SeqsUpTo(_, _)
SeqsUpTo(S, n) ==
    IF n = 0 THEN {<<>>}
    ELSE LET shorter == SeqsUpTo(S, n - 1)
         IN shorter \cup {Append(s, x) : s \in {t \in shorter : Len(t) = n - 1}, x \in S}

---------------------------------------------------------------------------
(* FAISS IndexFlatL2 *)

\* faiss.IndexFlatL2(d): no vectors yet
IndexFlatL2(d) == [d |-> d, ntotal |-> 0, xb |-> <<>>]

\* the rows of x laid out one after the other, as IndexFlat stores them
Flatten(x) ==
    [p \in 1..(x.n * x.d) |-> x.rows[((p - 1) \div x.d) + 1][((p - 1) % x.d) + 1]]

\* index.add(x): the wrapper asserts the column count, then appends
FaissAdd(index, x) ==
    IF x.d # index.d
    THEN [raised |-> "AssertionError", index |-> index]
    ELSE [raised |-> NoError,
          index |-> [index EXCEPT !.ntotal = @ + x.n, !.xb = @ \o Flatten(x)]]

\* stored vector number i (0-based)
Reconstruct(index, i) == [j \in 1..index.d |-> index.xb[i * index.d + j]]

RECURSIVE SumTo(_, _)
SumTo(f, n) == IF n = 0 THEN 0 ELSE f[n] + SumTo(f, n - 1)

\* squared Euclidean distance
L2Sqr(x, y) == SumTo([j \in 1..Len(x) |-> (x[j] - y[j]) * (x[j] - y[j])], Len(x))

\* the distance FAISS reports for a result that does not exist (the largest
\* float): above every distance between two vectors of the model, whose
\* coordinates stay below 100
HugeDist == (EmbeddingDim + 1) * 100 * 100

\* (dis, id) pairs that compare by distance, then by the larger id
CloserLargerIdFirst(a, b) == a.dis < b.dis \/ (a.dis = b.dis /\ a.id > b.id)

\* (dis, id) pairs compare by distance, then by id
Closer(a, b) == a.dis < b.dis \/ (a.dis = b.dis /\ a.id < b.id)

\* the k best so far, ascending; e replaces the worst when it is strictly nearer
HeapAdd(best, e) ==
    LET k == Len(best)
    IN IF ~(e.dis < best[k].dis) THEN best
       ELSE LET p == CHOOSE i \in 1..k :
                       /\ Closer(e, best[i])
                       /\ \A j \in 1..(i - 1) : ~Closer(e, best[j])
            IN SubSeq(best, 1, p - 1) \o <<e>> \o SubSeq(best, p, k - 1)

\* a scan that looks at the first k stored vectors only
RECURSIVE ScanFirstK(_, _, _, _)
ScanFirstK(index, q, best, i) ==
    IF i = Min(index.ntotal, Len(best)) THEN best
    ELSE ScanFirstK(index, q,
                    HeapAdd(best, [dis |-> L2Sqr(Reconstruct(index, i), q), id |-> i]),
                    i + 1)

\* the loop over the stored vectors; the heap after vector i is a value of
\* its own (next), computed once
RECURSIVE Scan(_, _, _, _)
Scan(index, q, best, i) ==
    IF i = index.ntotal THEN best
    ELSE CHOOSE out \in
            {Scan(index, q, next, i + 1) :
                next \in {HeapAdd(best, [dis |-> L2Sqr(Reconstruct(index, i), q), id |-> i])}} :
            TRUE

\* index.search(q, k) for one query: k (distance, label) pairs, nearest first
FaissSearch(index, q, k) ==
    IF Len(q) # index.d
    THEN Raise("AssertionError")
    ELSE Return(Scan(index, q, [i \in 1..k |-> [dis |-> HugeDist, id |-> -1]], 0))

\* faiss.write_index: the file holds the header and the flat array
WriteIndex(index) == [d |-> index.d, ntotal |-> index.ntotal, codes |-> index.xb]

\* faiss.read_index
ReadIndex(file) == [d |-> file.d, ntotal |-> file.ntotal, xb |-> file.codes]

---------------------------------------------------------------------------
(* JSON mapping files *)

Digits == <<"0", "1", "2", "3", "4", "5", "6", "7", "8", "9">>

\* str(n) for n >= 0: the decimal digits, most significant first
RECURSIVE IntToStr(_)
IntToStr(n) == IF n < 10 THEN <<Digits[n + 1]>> ELSE Append(IntToStr(n \div 10), Digits[(n % 10) + 1])

DigitValue(c) == (CHOOSE i \in 1..10 : Digits[i] = c) - 1

\* int(s) for a string of decimal digits
RECURSIVE StrToInt(_)
StrToInt(s) ==
    IF Len(s) = 1 THEN DigitValue(s[1])
    ELSE 10 * StrToInt(SubSeq(s, 1, Len(s) - 1)) + DigitValue(s[Len(s)])

\* the keys of a dict in the order the store inserted them: ascending
RECURSIVE KeyOrder(_)
KeyOrder(keys) ==
    IF keys = {} THEN <<>>
    ELSE LET k == CHOOSE x \in keys : \A y \in keys : x <= y
         IN <<k>> \o KeyOrder(keys \ {k})

\* json.dump that numbers the slots from 1
JsonDumpOneBased(mapping) ==
    LET order == KeyOrder(DOMAIN mapping)
    IN [object |->
           [i \in 1..Len(order) |-> [key |-> IntToStr(order[i] + 1), value |-> mapping[order[i]]]]]

\* json.dump(mapping): an object whose keys are the slot numbers as strings
JsonDump(mapping) ==
    LET order == KeyOrder(DOMAIN mapping)
    IN [object |->
           [i \in 1..Len(order) |-> [key |-> IntToStr(order[i]), value |-> mapping[order[i]]]]]

\* {int(k): v for k, v in json.load(f).items()}
JsonLoadIntKeys(file) ==
    LET items == file.object
        at(k) == CHOOSE i \in 1..Len(items) : StrToInt(items[i].key) = k
    IN [k \in {StrToInt(items[i].key) : i \in 1..Len(items)} |-> items[at(k)].value]

---------------------------------------------------------------------------
(* VectorStore *)

\* a store as one value
Store == [text_index |-> text_index, image_index |-> image_index,
          chunk_mapping |-> chunk_mapping, image_mapping |-> image_mapping]

\* VectorStore.__init__
VectorStoreInit == [text_index |-> None, image_index |-> None,
                    chunk_mapping |-> <<>>, image_mapping |-> <<>>]

\* the number of vectors behind an index attribute
VectorCount(index) == IF index = None THEN 0 ELSE index.ntotal

\* a call on a store: the store it leaves and how it ended
Outcome(st, raised, value) == [store |-> st, raised |-> raised, value |-> value]

\* the dict comprehension of create_text_index: chunks[i] fails past the end
ChunkMappingOf(chunk_ids, chunks) ==
    [i \in 0..(Len(chunk_ids) - 1) |->
        [chunk_id |-> chunk_ids[i + 1],
         text |-> chunks[i + 1].text,
         chunk_index |-> chunks[i + 1].chunk_index]]

\* a create_text_index that adds the vectors to the index the store holds
CreateTextIndexMerging(st, embeddings, chunk_ids, chunks) ==
    LET held == IF st.text_index = None THEN IndexFlatL2(EmbeddingDim) ELSE st.text_index
        added == FaissAdd(held, embeddings)
        st1 == [st EXCEPT !.text_index = added.index]
    IN IF added.raised # NoError THEN Outcome(st1, added.raised, None)
       ELSE IF Len(chunks) < Len(chunk_ids) THEN Outcome(st1, "IndexError", None)
       ELSE Outcome([st1 EXCEPT !.chunk_mapping = ChunkMappingOf(chunk_ids, chunks)],
                    NoError, None)

\* create_text_index(embeddings, chunk_ids, chunks)
CreateTextIndex(st, embeddings, chunk_ids, chunks) ==
    LET fresh == IndexFlatL2(EmbeddingDim)
        added == FaissAdd(fresh, embeddings)
        st1 == [st EXCEPT !.text_index = added.index]
    IN IF added.raised # NoError THEN Outcome(st1, added.raised, None)
       ELSE IF Len(chunks) < Len(chunk_ids) THEN Outcome(st1, "IndexError", None)
       ELSE Outcome([st1 EXCEPT !.chunk_mapping = ChunkMappingOf(chunk_ids, chunks)],
                    NoError, None)

\* the dict comprehension of create_image_index
ImageMappingOf(image_ids, images) ==
    [i \in 0..(Len(image_ids) - 1) |->
        [image_id |-> image_ids[i + 1],
         filename |-> images[i + 1].filename,
         title |-> images[i + 1].title,
         description |-> images[i + 1].description,
         keywords |-> images[i + 1].keywords]]

\* a create_image_index that keeps one index for both collections
CreateImageIndexSharing(st, embeddings, image_ids, images) ==
    LET fresh == IndexFlatL2(EmbeddingDim)
        added == FaissAdd(fresh, embeddings)
        st1 == [st EXCEPT !.image_index = added.index, !.text_index = added.index]
    IN IF added.raised # NoError THEN Outcome(st1, added.raised, None)
       ELSE IF Len(images) < Len(image_ids) THEN Outcome(st1, "IndexError", None)
       ELSE Outcome([st1 EXCEPT !.image_mapping = ImageMappingOf(image_ids, images)],
                    NoError, None)

\* create_image_index(embeddings, image_ids, images)
CreateImageIndex(st, embeddings, image_ids, images) ==
    LET fresh == IndexFlatL2(EmbeddingDim)
        added == FaissAdd(fresh, embeddings)
        st1 == [st EXCEPT !.image_index = added.index]
    IN IF added.raised # NoError THEN Outcome(st1, added.raised, None)
       ELSE IF Len(images) < Len(image_ids) THEN Outcome(st1, "IndexError", None)
       ELSE Outcome([st1 EXCEPT !.image_mapping = ImageMappingOf(image_ids, images)],
                    NoError, None)

\* raise ValueError("Text index not initialized!")
TextIndexNotInitialized == "ValueError: Text index not initialized!"

\* raise ValueError("Image index not initialized!")
ImageIndexNotInitialized == "ValueError: Image index not initialized!"

\* the significand of a float32: 24 binary digits
MantissaBits == 24

RECURSIVE Pow2(_)
Pow2(k) == IF k = 0 THEN 1 ELSE 2 * Pow2(k - 1)

\* a positive count x of units of a power of two, rounded as float32 rounds
\* it: to the nearest number of at most MantissaBits binary digits, a tie
\* to the even one
RoundToFloat32(x) ==
    IF x < Pow2(MantissaBits) THEN x
    ELSE LET bits == CHOOSE k \in (MantissaBits + 1)..30 : Pow2(k - 1) <= x /\ x < Pow2(k)
             ulp == Pow2(bits - MantissaBits)
             q == x \div ulp
             r == x % ulp
         IN IF 2 * r > ulp \/ (2 * r = ulp /\ q % 2 = 1) THEN (q + 1) * ulp ELSE q * ulp

\* _distance_to_similarity(distance) for a distance counted in units of
\* which one make 1.0: 1 + distance is a float32 sum (distance is an
\* element of the float32 array faiss returns); the quotient is kept as a
\* fraction, without the rounding of the division
Similarity(distance, one) == [num |-> one, den |-> RoundToFloat32(one + distance)]

\* _distance_to_similarity(distance) for a whole distance
DistanceToSimilarity(distance) == Similarity(distance, 1)

\* the result loop of search_text: mapping[idx] fails on a label it does not hold
TextResults(mapping, found) ==
    IF \E i \in 1..Len(found) : found[i].id \notin DOMAIN mapping
    THEN Raise("KeyError")
    ELSE Return([i \in 1..Len(found) |->
            [rank |-> i,
             chunk_id |-> mapping[found[i].id].chunk_id,
             text |-> mapping[found[i].id].text,
             distance |-> found[i].dis,
             similarity_score |-> DistanceToSimilarity(found[i].dis)]])

\* search_text that answers an index that was never built with no results
SearchTextLenient(st, query_embedding, k) ==
    IF st.text_index = None THEN Return(<<>>)
    ELSE LET found == FaissSearch(st.text_index, query_embedding, k)
         IN IF found.raised # NoError THEN found
            ELSE TextResults(st.chunk_mapping, found.value)

\* search_text(query_embedding, k)
SearchText(st, query_embedding, k) ==
    IF st.text_index = None THEN Raise(TextIndexNotInitialized)
    ELSE LET found == FaissSearch(st.text_index, query_embedding, k)
         IN IF found.raised # NoError THEN found
            ELSE TextResults(st.chunk_mapping, found.value)

\* the result loop of search_images
ImageResults(mapping, found) ==
    IF \E i \in 1..Len(found) : found[i].id \notin DOMAIN mapping
    THEN Raise("KeyError")
    ELSE Return([i \in 1..Len(found) |->
            [rank |-> i,
             image_id |-> mapping[found[i].id].image_id,
             filename |-> mapping[found[i].id].filename,
             title |-> mapping[found[i].id].title,
             description |-> mapping[found[i].id].description,
             keywords |-> mapping[found[i].id].keywords,
             distance |-> found[i].dis,
             similarity_score |-> DistanceToSimilarity(found[i].dis)]])

\* search_images(query_embedding, k)
SearchImages(st, query_embedding, k) ==
    IF st.image_index = None THEN Raise(ImageIndexNotInitialized)
    ELSE LET found == FaissSearch(st.image_index, query_embedding, k)
         IN IF found.raised # NoError THEN found
            ELSE ImageResults(st.image_mapping, found.value)

\* a file that does not exist
NoFile == [missing |-> TRUE]

\* a directory nothing has been saved to
EmptyDir == [text_vectors |-> NoFile, image_vectors |-> NoFile,
             chunk_mapping_json |-> NoFile, image_mapping_json |-> NoFile]

\* save_indices(save_dir): an index file only for an index that exists, both
\* mapping files always
SaveIndices(st, dir) ==
    [text_vectors |->
        IF st.text_index # None THEN WriteIndex(st.text_index) ELSE dir.text_vectors,
     image_vectors |->
        IF st.image_index # None THEN WriteIndex(st.image_index) ELSE dir.image_vectors,
     chunk_mapping_json |-> JsonDump(st.chunk_mapping),
     image_mapping_json |-> JsonDump(st.image_mapping)]

\* load_indices(load_dir): the index files that exist, then the two mapping
\* files; open() raises on a missing one, after the indices were assigned
LoadIndices(st, dir) ==
    LET st1 == IF dir.text_vectors # NoFile
               THEN [st EXCEPT !.text_index = ReadIndex(dir.text_vectors)] ELSE st
        st2 == IF dir.image_vectors # NoFile
               THEN [st1 EXCEPT !.image_index = ReadIndex(dir.image_vectors)] ELSE st1
    IN IF dir.chunk_mapping_json = NoFile THEN Outcome(st2, "FileNotFoundError", None)
       ELSE LET st3 == [st2 EXCEPT !.chunk_mapping = JsonLoadIntKeys(dir.chunk_mapping_json)]
            IN IF dir.image_mapping_json = NoFile
               THEN Outcome(st3, "FileNotFoundError", None)
               ELSE Outcome([st3 EXCEPT !.image_mapping =
                                 JsonLoadIntKeys(dir.image_mapping_json)],
                            NoError, None)

---------------------------------------------------------------------------
(* PDFProcessor.chunk_text.  A text is a sequence of characters.  The      *)
(* RecursiveCharacterTextSplitter of langchain is a library: it is         *)
(* modelled by what split_text does for the arguments of __init__          *)
(* (keep_separator and strip_whitespace at their defaults, True).  Every   *)
(* piece it handles is a run of consecutive characters of the text, kept   *)
(* here as the positions lo..hi.                                           *)

\* separators=["\n\n", "\n", ". ", " ", ""]
Separators == << <<"\n", "\n">>, <<"\n">>, <<".", " ">>, <<" ">>, <<>> >>

\* the characters str.strip() removes, of those the texts here are made of
Whitespace == {" ", "\n"}

SetMin(S) == CHOOSE x \in S : \A y \in S : x <= y
SetMax(S) == CHOOSE x \in S : \A y \in S : y <= x

Piece(lo, hi) == [lo |-> lo, hi |-> hi]
PieceLen(p) == p.hi - p.lo + 1

\* separator stands in text at position i, ending at hi or before
OccursAt(text, hi, separator, i) ==
    /\ i + Len(separator) - 1 <= hi
    /\ \A j \in 1..Len(separator) : text[i + j - 1] = separator[j]

\* a match of re.split in text[lo..hi] starts at i: matches are found from
\* the left and do not overlap, so of a run of occurrences that start at
\* consecutive positions (three newlines hold "\n\n" twice) every second
\* one is a match (the separators are one or two characters long)
MatchAt(text, lo, hi, separator, i) ==
    /\ OccursAt(text, hi, separator, i)
    /\ \/ Len(separator) = 1
       \/ LET free == {j \in (lo - 1)..(i - 1) :
                          j = lo - 1 \/ ~OccursAt(text, hi, separator, j)}
          IN (i - 1 - SetMax(free)) % 2 = 0

\* _split_text_with_regex(text[lo..hi], separator, keep_separator=True):
\* each separator stays at the head of the piece that follows it, "" gives
\* one piece per character, empty pieces are dropped
SplitTextWithRegex(text, lo, hi, separator) ==
    IF separator = <<>> THEN [i \in 1..(hi - lo + 1) |-> Piece(lo + i - 1, lo + i - 1)]
    ELSE LET starts == {i \in lo..hi : MatchAt(text, lo, hi, separator, i)}
             cuts == IF hi < lo THEN {} ELSE starts \cup {lo}
             Nth(k) == CHOOSE c \in cuts : Cardinality({d \in cuts : d < c}) = k - 1
             End(c) == IF \E d \in cuts : d > c
                       THEN SetMin({d \in cuts : d > c}) - 1 ELSE hi
         IN [k \in 1..Cardinality(cuts) |-> Piece(Nth(k), End(Nth(k)))]

\* _join_docs(splits[f..l], ""): the pieces joined and stripped, as a list
\* of one document, or of none when nothing but whitespace is left
JoinDocs(text, splits, f, l) ==
    IF f > l THEN <<>>
    ELSE LET kept == {p \in splits[f].lo..splits[l].hi : text[p] \notin Whitespace}
         IN IF kept = {} THEN <<>> ELSE <<Piece(SetMin(kept), SetMax(kept))>>

\* _merge_splits(splits, "") from the point where current_doc is
\* splits[first..i-1] and splits[i..] are to come: pieces are appended
\* until the next one would pass chunk_size; then current_doc is emitted
\* and pieces are popped from its front while it is longer than
\* chunk_overlap, or too long to take the next piece
RECURSIVE MergeSplits(_, _, _, _, _, _)
MergeSplits(text, splits, first, i, chunk_size, chunk_overlap) ==
    LET Total(g, h) == IF g > h THEN 0 ELSE splits[h].hi - splits[g].lo + 1
        full == {e \in i..Len(splits) :
                    Total(first, e - 1) + PieceLen(splits[e]) > chunk_size}
    IN IF full = {} THEN JoinDocs(text, splits, first, Len(splits))
       ELSE LET e == SetMin(full)
                popped == {g \in first..e :
                              ~ \/ Total(g, e - 1) > chunk_overlap
                                \/ /\ Total(g, e - 1) + PieceLen(splits[e]) > chunk_size
                                   /\ Total(g, e - 1) > 0}
            IN JoinDocs(text, splits, first, e - 1)
               \o MergeSplits(text, splits, SetMin(popped), e + 1, chunk_size, chunk_overlap)

\* _split_text(text[lo..hi], separators[s:]): split at the first separator
\* that occurs, merge the pieces shorter than chunk_size, and split a
\* longer piece again with the separators that follow
RECURSIVE SplitText(_, _, _, _, _, _)
RECURSIVE SplitLoop(_, _, _, _, _, _)
SplitText(text, lo, hi, s, chunk_size, chunk_overlap) ==
    LET found == {j \in s..Len(Separators) :
                     \/ Separators[j] = <<>>
                     \/ \E i \in lo..hi : OccursAt(text, hi, Separators[j], i)}
        j == IF found = {} THEN Len(Separators) ELSE SetMin(found)
        new_separators == IF found = {} \/ Separators[j] = <<>>
                          THEN Len(Separators) + 1 ELSE j + 1
    IN SplitLoop(text, SplitTextWithRegex(text, lo, hi, Separators[j]), 1,
                 new_separators, chunk_size, chunk_overlap)

\* the loop of _split_text over splits[i..]; new_separators is the
\* position of the first separator left (none: past the end)
SplitLoop(text, splits, i, new_separators, chunk_size, chunk_overlap) ==
    LET long == {b \in i..Len(splits) : PieceLen(splits[b]) >= chunk_size}
        upto == IF long = {} THEN Len(splits) ELSE SetMin(long) - 1
        merged == MergeSplits(text, SubSeq(splits, i, upto), 1, 1, chunk_size, chunk_overlap)
    IN IF long = {} THEN merged
       ELSE LET s == splits[upto + 1]
            IN merged
               \o (IF new_separators > Len(Separators) THEN <<s>>
                   ELSE SplitText(text, s.lo, s.hi, new_separators, chunk_size, chunk_overlap))
               \o SplitLoop(text, splits, upto + 2, new_separators, chunk_size, chunk_overlap)

\* f"{n:04d}" and the like: str(n) filled with zeros from the left to width
ZeroPad(digits, width) ==
    IF Len(digits) >= width THEN digits
    ELSE [i \in 1..(width - Len(digits)) |-> "0"] \o digits

\* an id without the zeros
ChunkIdUnpadded(idx) == <<"chunk_">> \o IntToStr(idx)

\* f"chunk_{idx:04d}"
ChunkId(idx) == <<"chunk_">> \o ZeroPad(IntToStr(idx), 4)

\* PDFProcessor(chunk_size, chunk_overlap).chunk_text(text)
ChunkText(text, chunk_size, chunk_overlap) ==
    LET chunks == SplitText(text, 1, Len(text), 1, chunk_size, chunk_overlap)
    IN [n \in 1..Len(chunks) |->
           [id |-> ChunkId(n - 1),
            text |-> SubSeq(text, chunks[n].lo, chunks[n].hi),
            chunk_index |-> n - 1,
            char_count |-> PieceLen(chunks[n])]]

---------------------------------------------------------------------------
(* Inputs: what a build is fed *)

Letters == <<"a", "b", "c", "d", "e", "f">>

\* row i (0-based) of the embeddings of a document, d columns wide
DocRow(i, d) == [j \in 1..d |-> i % 2]

\* the first n embeddings of a document
DocArray(n, d) == Array([i \in 1..n |-> DocRow(i - 1, d)], d)

\* the ids chunk_text gives the first m chunks
ChunkIds(m) == [i \in 1..m |-> ChunkId(i - 1)]

\* the first c chunk dictionaries of a document
Chunks(c) ==
    [i \in 1..c |-> [id |-> ChunkId(i - 1),
                     text |-> <<Letters[i]>>,
                     chunk_index |-> i - 1]]

ImageIds(m) == [i \in 1..m |-> <<"img_">> \o IntToStr(i - 1)]

\* the first c image metadata dictionaries
Images(c) ==
    [i \in 1..c |-> [id |-> <<"img_">> \o IntToStr(i - 1),
                     filename |-> <<"img_">> \o IntToStr(i - 1) \o <<".png">>,
                     title |-> <<Letters[i]>>,
                     description |-> <<Letters[i], Letters[i]>>,
                     keywords |-> <<<<Letters[i]>>, <<"sound">>>>]]

\* the shapes a build is called with: n rows of d columns, m ids, c records
\* (as many as ids, or one short)
BuildShapes(max) ==
    {s \in [n : 0..max, d : {EmbeddingDim}, ids : 0..max, records : 0..max] :
        s.records \in {s.ids, s.ids - 1}}
    \cup {[n |-> 1, d |-> EmbeddingDim + 1, ids |-> 1, records |-> 1]}

---------------------------------------------------------------------------
(* The life of one store and its directory *)

Call(op, raised, value, args) == [op |-> op, raised |-> raised, value |-> value, args |-> args]

\* most /chat requests the server holds at a time
MaxChats == 2
ChatIds == 1..MaxChats

\* a /chat request that has not arrived
NoChat == [pc |-> "none", question |-> <<>>, text_chunks |-> <<>>, images |-> <<>>]

\* the process before the server started: no service, no model, no request
\* none of the helper modules (circuit_breaker, rate_limiter, queue, cache,
\* task_queue, error_handler) is in use: nothing of the server imports them
UtilsNotUsed ==
    /\ now = 0
    /\ breaker = None
    /\ limiter = None
    /\ priority_queue = None
    /\ global_cache = None
    /\ task_queue = None
    /\ retry = None

AppNotStarted ==
    /\ rag_service = None
    /\ model_loads = 0
    /\ chats = [c \in ChatIds |-> NoChat]
    /\ api_key = TRUE
    /\ UtilsNotUsed

\* no thread is inside create_text_index / search_text
NoBuilder == [pc |-> "idle", n |-> 0]
NoSearcher == [pc |-> "idle", q |-> <<>>, k |-> 0, found |-> <<>>, i |-> 0,
               results |-> <<>>, seen_vectors |-> 0, seen_entries |-> 0,
               looked_up |-> FALSE]

SetStore(st) ==
    /\ text_index' = st.text_index
    /\ image_index' = st.image_index
    /\ chunk_mapping' = st.chunk_mapping
    /\ image_mapping' = st.image_mapping

Init ==
    /\ text_index = None
    /\ image_index = None
    /\ chunk_mapping = <<>>
    /\ image_mapping = <<>>
    /\ disk = EmptyDir
    /\ result = Call("__init__", NoError, None, <<>>)
    /\ builder = NoBuilder
    /\ searcher = NoSearcher
    /\ AppNotStarted

\* a new VectorStore object takes the place of the current one
NewStore ==
    /\ SetStore(VectorStoreInit)
    /\ result' = Call("__init__", NoError, None, <<>>)
    /\ UNCHANGED <<disk, threadVars, appVars, utilVars>>

CreateTextIndexCall ==
    \E s \in BuildShapes(MaxVecs) :
        \E out \in {CreateTextIndex(Store, DocArray(s.n, s.d), ChunkIds(s.ids), Chunks(s.records))} :
           /\ SetStore(out.store)
           /\ result' = Call("create_text_index", out.raised, None, [n |-> s.n, ids |-> s.ids])
           /\ UNCHANGED <<disk, threadVars, appVars, utilVars>>

CreateImageIndexCall ==
    \E s \in BuildShapes(MaxVecs) :
        \E out \in {CreateImageIndex(Store, DocArray(s.n, s.d), ImageIds(s.ids), Images(s.records))} :
           /\ SetStore(out.store)
           /\ result' = Call("create_image_index", out.raised, None, [n |-> s.n, ids |-> s.ids])
           /\ UNCHANGED <<disk, threadVars, appVars, utilVars>>

SaveIndicesCall ==
    /\ disk' = SaveIndices(Store, disk)
    /\ result' = Call("save_indices", NoError, None, <<>>)
    /\ UNCHANGED <<storeVars, threadVars, appVars, utilVars>>

LoadIndicesCall ==
    \E out \in {LoadIndices(Store, disk)} :
       /\ SetStore(out.store)
       /\ result' = Call("load_indices", out.raised, None, <<>>)
       /\ UNCHANGED <<disk, threadVars, appVars, utilVars>>

Next ==
    \/ NewStore
    \/ CreateTextIndexCall
    \/ CreateImageIndexCall
    \/ SaveIndicesCall
    \/ LoadIndicesCall

Spec == Init /\ [][Next]_vars

---------------------------------------------------------------------------
(* Searching a store that some builds left behind *)

\* every embeddings array of at most MaxRows rows
Arrays == {Array(rows, EmbeddingDim) : rows \in SeqsUpTo(Vectors(EmbeddingDim), MaxRows)}

\* the query vectors: every vector of the store's dimension, and one too long
Queries == Vectors(EmbeddingDim) \cup {[j \in 1..(EmbeddingDim + 1) |-> 0]}

\* the stores left by building none, one or both collections from an array and
\* m metadata records
BuiltStores ==
    {VectorStoreInit} \cup
    UNION {LET t == CreateTextIndex(VectorStoreInit, a, ChunkIds(m), Chunks(m)).store
               i == CreateImageIndex(VectorStoreInit, a, ImageIds(m), Images(m)).store
               b == CreateImageIndex(t, a, ImageIds(m), Images(m)).store
           IN {t, i, b} : a \in Arrays, m \in 0..MaxRows}

InitSearch ==
    /\ \E st \in BuiltStores :
          /\ text_index = st.text_index
          /\ image_index = st.image_index
          /\ chunk_mapping = st.chunk_mapping
          /\ image_mapping = st.image_mapping
    /\ disk = EmptyDir
    /\ result = Call("__init__", NoError, None, <<>>)
    /\ builder = NoBuilder
    /\ searcher = NoSearcher
    /\ AppNotStarted

SearchTextCall ==
    \E q \in Queries, k \in 1..MaxK :
        \E out \in {SearchText(Store, q, k)} :
           /\ result' = Call("search_text", out.raised, out.value, [q |-> q, k |-> k])
           /\ UNCHANGED <<storeVars, disk, threadVars, appVars, utilVars>>

SearchImagesCall ==
    \E q \in Queries, k \in 1..MaxK :
        \E out \in {SearchImages(Store, q, k)} :
           /\ result' = Call("search_images", out.raised, out.value, [q |-> q, k |-> k])
           /\ UNCHANGED <<storeVars, disk, threadVars, appVars, utilVars>>

NextSearch ==
    \/ SearchTextCall
    \/ SearchImagesCall

SpecSearch == InitSearch /\ [][NextSearch]_vars

---------------------------------------------------------------------------
(* A rebuild and a search of the text collection on the same store, each   *)
(* in a thread of its own.  Neither method takes a lock; a thread switch   *)
(* can fall between any two statements.                                    *)

\* the stores a consistent build of m chunks leaves, and the new store
ConsistentStores ==
    {VectorStoreInit} \cup
    {CreateTextIndex(VectorStoreInit, DocArray(m, EmbeddingDim), ChunkIds(m), Chunks(m)).store :
        m \in 0..MaxRows}

InitConc ==
    /\ \E st \in ConsistentStores :
          /\ text_index = st.text_index
          /\ image_index = st.image_index
          /\ chunk_mapping = st.chunk_mapping
          /\ image_mapping = st.image_mapping
    /\ disk = EmptyDir
    /\ result = Call("__init__", NoError, None, <<>>)
    /\ builder = NoBuilder
    /\ searcher = NoSearcher
    /\ AppNotStarted

\* create_text_index, line 43: self.text_index = faiss.IndexFlatL2(...)
RebuildNewIndex ==
    /\ builder.pc = "idle"
    /\ \E n \in 0..MaxRows : builder' = [pc |-> "line46", n |-> n]
    /\ text_index' = IndexFlatL2(EmbeddingDim)
    /\ UNCHANGED <<image_index, chunk_mapping, image_mapping, disk, result, searcher, appVars, utilVars>>

\* create_text_index, line 46: self.text_index.add(embeddings)
RebuildAdd ==
    /\ builder.pc = "line46"
    /\ text_index' = FaissAdd(text_index, DocArray(builder.n, EmbeddingDim)).index
    /\ builder' = [builder EXCEPT !.pc = "line49"]
    /\ UNCHANGED <<image_index, chunk_mapping, image_mapping, disk, result, searcher, appVars, utilVars>>

\* create_text_index, lines 49-56: self.chunk_mapping = {...}, and the return
RebuildMapping ==
    /\ builder.pc = "line49"
    /\ chunk_mapping' = ChunkMappingOf(ChunkIds(builder.n), Chunks(builder.n))
    /\ builder' = [builder EXCEPT !.pc = "done"]
    /\ result' = Call("create_text_index", NoError, None, [n |-> builder.n, ids |-> builder.n])
    /\ UNCHANGED <<text_index, image_index, image_mapping, disk, searcher, appVars, utilVars>>

\* search_text, lines 106-107: the None check
SearchCheck ==
    /\ searcher.pc = "idle"
    /\ \E q \in Vectors(EmbeddingDim), k \in 1..MaxK :
          IF text_index = None
          THEN /\ searcher' = [searcher EXCEPT !.pc = "done", !.q = q, !.k = k]
               /\ result' = Call("search_text", TextIndexNotInitialized, None, [q |-> q, k |-> k])
          ELSE /\ searcher' = [searcher EXCEPT !.pc = "line113", !.q = q, !.k = k]
               /\ UNCHANGED result
    /\ UNCHANGED <<storeVars, disk, builder, appVars, utilVars>>

\* search_text, line 113: self.text_index.search(query_embedding, k)
SearchScan ==
    /\ searcher.pc = "line113"
    /\ searcher' = [searcher EXCEPT !.pc = "line117",
                                    !.found = FaissSearch(text_index, searcher.q, searcher.k).value,
                                    !.seen_vectors = text_index.ntotal,
                                    !.i = 1]
    /\ UNCHANGED <<storeVars, disk, result, builder, appVars, utilVars>>

\* search_text, lines 117-125: one turn of the loop, self.chunk_mapping[idx]
SearchRow ==
    /\ searcher.pc = "line117"
    /\ searcher.i <= Len(searcher.found)
    /\ LET idx == searcher.found[searcher.i].id
           seen == [searcher EXCEPT !.seen_entries = Cardinality(DOMAIN chunk_mapping),
                                    !.looked_up = TRUE]
       IN IF idx \notin DOMAIN chunk_mapping
          THEN /\ searcher' = [seen EXCEPT !.pc = "done"]
               /\ result' = Call("search_text", "KeyError", None,
                                 [q |-> searcher.q, k |-> searcher.k])
          ELSE /\ searcher' =
                    [seen EXCEPT !.i = searcher.i + 1,
                                 !.results = Append(searcher.results,
                                    [rank |-> searcher.i,
                                     chunk_id |-> chunk_mapping[idx].chunk_id,
                                     text |-> chunk_mapping[idx].text,
                                     distance |-> searcher.found[searcher.i].dis,
                                     similarity_score |->
                                        DistanceToSimilarity(searcher.found[searcher.i].dis)])]
               /\ UNCHANGED result
    /\ UNCHANGED <<storeVars, disk, builder, appVars, utilVars>>

\* search_text, line 127: return results
SearchReturn ==
    /\ searcher.pc = "line117"
    /\ searcher.i > Len(searcher.found)
    /\ searcher' = [searcher EXCEPT !.pc = "done"]
    /\ result' = Call("search_text", NoError, searcher.results,
                      [q |-> searcher.q, k |-> searcher.k])
    /\ UNCHANGED <<storeVars, disk, builder, appVars, utilVars>>

NextConc ==
    \/ RebuildNewIndex
    \/ RebuildAdd
    \/ RebuildMapping
    \/ SearchCheck
    \/ SearchScan
    \/ SearchRow
    \/ SearchReturn

SpecConc == InitConc /\ [][NextConc]_vars

---------------------------------------------------------------------------
(* RAGService: retrieve_context, generate_answer, answer_question *)

\* config.TOP_K_CHUNKS and config.TOP_K_IMAGES
TOP_K_CHUNKS == 3
TOP_K_IMAGES == 1

\* context_chunks[0]['text'][:500] of the fallback answer
FallbackChars == 500

\* chunk["text"][:200] of the response
PreviewChars == 200

\* s[:n]
Prefix(s, n) == SubSeq(s, 1, Min(n, Len(s)))

\* the fixed pieces of the fallback answer (an f-string), as tokens
Apology == <<"I'm having trouble connecting to the AI service right now. ", "\n", "\n">>
Lead == <<"However, based on the relevant section from your textbook:", "\n", "\n">>
Ellipsis == <<"...">>
Closing == <<"\n", "\n", "This should help answer your question about: ">>

\* how the one requests.post of generate_answer can end
\*   ok                a 2xx response whose body holds choices[0].message.content
\*   timeout           requests.exceptions.Timeout after 60 s
\*   connection_error  requests.exceptions.ConnectionError
\*   http_error        a non-2xx response: raise_for_status raises HTTPError
\*   malformed         a 2xx response whose JSON body has no "choices"
LLMOutcomes == {"ok", "timeout", "connection_error", "http_error", "malformed"}

\* the outcomes that end in a requests.exceptions.RequestException
RequestExceptions == {"timeout", "connection_error", "http_error"}

\* result["choices"][0]["message"]["content"] of a good response
LLMContent == <<"The", " ", "answer", ".">>

\* a fallback answer quoting the lowest-ranked chunk
FallbackAnswerLastChunk(question, context_chunks) ==
    Apology \o Lead \o Prefix(context_chunks[Len(context_chunks)].text, FallbackChars)
            \o Ellipsis \o Closing \o question

\* the fallback answer of the except branch
FallbackAnswer(question, context_chunks) ==
    Apology \o Lead \o Prefix(context_chunks[1].text, FallbackChars) \o Ellipsis
            \o Closing \o question

\* how a call of the service ends, and the requests.post calls it made
Served(raised, value, posts) == [raised |-> raised, value |-> value, posts |-> posts]

\* a generate_answer that posts a second time when the first post failed
GenerateAnswerRetrying(question, context_chunks, llm) ==
    IF llm = "ok" THEN Served(NoError, LLMContent, 1)
    ELSE IF llm \in RequestExceptions
         THEN IF Len(context_chunks) = 0 THEN Served("IndexError", None, 2)
              ELSE Served(NoError, FallbackAnswer(question, context_chunks), 2)
         ELSE Served("KeyError", None, 1)

\* generate_answer(question, context_chunks) when the post ends as llm
GenerateAnswer(question, context_chunks, llm) ==
    IF llm = "ok" THEN Served(NoError, LLMContent, 1)
    ELSE IF llm \in RequestExceptions
         THEN IF Len(context_chunks) = 0 THEN Served("IndexError", None, 1)
              ELSE Served(NoError, FallbackAnswer(question, context_chunks), 1)
         ELSE Served("KeyError", None, 1)

\* how generate_query_embedding(question) can end: model.encode returns a
\* vector of the model's dimension, or raises
EmbeddingFailed == "RuntimeError"
EmbedOutcomes == {Return(v) : v \in Vectors(EmbeddingDim)} \cup {Raise(EmbeddingFailed)}

\* how retrieve_context ends, and the index searches it made
Retrieved(raised, value, searches) == [raised |-> raised, value |-> value, searches |-> searches]

\* a retrieve_context that searches with the zero vector when the question
\* could not be embedded
RetrieveContextZeroQuery(st, embedded) ==
    LET query_embedding == IF embedded.raised # NoError THEN [j \in 1..EmbeddingDim |-> 0]
                           ELSE embedded.value
        text_results == SearchText(st, query_embedding, TOP_K_CHUNKS)
        image_results == SearchImages(st, query_embedding, TOP_K_IMAGES)
    IN IF text_results.raised # NoError THEN Retrieved(text_results.raised, None, 1)
       ELSE IF image_results.raised # NoError THEN Retrieved(image_results.raised, None, 2)
       ELSE Retrieved(NoError, [text_chunks |-> text_results.value,
                                images |-> image_results.value], 2)

\* retrieve_context(question): the query embedding (embedded is how
\* generate_query_embedding ended), the text search, then the image search
RetrieveContext(st, embedded) ==
    IF embedded.raised # NoError THEN Retrieved(embedded.raised, None, 0)
    ELSE LET text_results == SearchText(st, embedded.value, TOP_K_CHUNKS)
             image_results == SearchImages(st, embedded.value, TOP_K_IMAGES)
         IN IF text_results.raised # NoError THEN Retrieved(text_results.raised, None, 1)
            ELSE IF image_results.raised # NoError
                 THEN Retrieved(image_results.raised, None, 2)
                 ELSE Retrieved(NoError, [text_chunks |-> text_results.value,
                                          images |-> image_results.value], 2)

\* a response whose previews are the whole chunk texts
ResponseWholeText(question, answer, text_chunks, images) ==
    [question |-> question,
     answer |-> answer,
     context_chunks |->
        [i \in 1..Len(text_chunks) |->
            [chunk_id |-> text_chunks[i].chunk_id,
             text |-> text_chunks[i].text \o Ellipsis,
             similarity |-> text_chunks[i].similarity_score]],
     image |-> IF Len(images) > 0 THEN images[1] ELSE None]

\* the response dictionary of answer_question
Response(question, answer, text_chunks, images) ==
    [question |-> question,
     answer |-> answer,
     context_chunks |->
        [i \in 1..Len(text_chunks) |->
            [chunk_id |-> text_chunks[i].chunk_id,
             text |-> Prefix(text_chunks[i].text, PreviewChars) \o Ellipsis,
             similarity |-> text_chunks[i].similarity_score]],
     image |-> IF Len(images) > 0 THEN images[1] ELSE None]

\* an answer_question that leaves the service with a new, empty store
AnswerQuestionResetting(st, question, embedded, llm) ==
    LET context == RetrieveContext(st, embedded)
    IN IF context.raised # NoError
       THEN [served |-> Served(context.raised, None, 0), retrieved |-> <<>>,
             images |-> <<>>, searches |-> context.searches, store |-> VectorStoreInit]
       ELSE LET answer == GenerateAnswer(question, context.value.text_chunks, llm)
            IN [served |->
                   IF answer.raised # NoError THEN answer
                   ELSE Served(NoError,
                               Response(question, answer.value,
                                        context.value.text_chunks, context.value.images),
                               answer.posts),
                retrieved |-> context.value.text_chunks,
                images |-> context.value.images,
                searches |-> context.searches,
                store |-> VectorStoreInit]

\* answer_question(question): its end, the posts made, the chunks and images
\* retrieved, the index searches made and the store it leaves (no statement of
\* retrieve_context, search_text, search_images or generate_answer assigns an
\* attribute of the store)
AnswerQuestion(st, question, embedded, llm) ==
    LET context == RetrieveContext(st, embedded)
    IN IF context.raised # NoError
       THEN [served |-> Served(context.raised, None, 0), retrieved |-> <<>>,
             images |-> <<>>, searches |-> context.searches, store |-> st]
       ELSE LET answer == GenerateAnswer(question, context.value.text_chunks, llm)
            IN [served |->
                   IF answer.raised # NoError THEN answer
                   ELSE Served(NoError,
                               Response(question, answer.value,
                                        context.value.text_chunks, context.value.images),
                               answer.posts),
                retrieved |-> context.value.text_chunks,
                images |-> context.value.images,
                searches |-> context.searches,
                store |-> st]

---------------------------------------------------------------------------
(* A RAGService over the directory a build of the book was saved to *)

\* most chunks and most images of the book the service is started on
MaxChunks == 3
MaxImages == 1

\* the lengths of the book's chunk texts (chunk_size is 1000 characters)
BookLens == <<501, 3, 201, 600, 1, 250>>

\* the first c chunk dictionaries of the book
BookChunks(c) ==
    [i \in 1..c |-> [id |-> ChunkId(i - 1),
                     text |-> [j \in 1..BookLens[i] |-> Letters[i]],
                     chunk_index |-> i - 1]]

\* the stores of the build pipeline: nothing built, or both collections
BookStores ==
    {VectorStoreInit} \cup
    {CreateImageIndex(
        CreateTextIndex(VectorStoreInit, DocArray(n, EmbeddingDim),
                        ChunkIds(n), BookChunks(n)).store,
        DocArray(m, EmbeddingDim), ImageIds(m), Images(m)).store :
            n \in 0..MaxChunks, m \in 0..MaxImages}

Questions == {<<"w", "h", "y">>, <<"h", "o", "w", "?">>}

\* RAGService.__init__: VectorStore(...) and load_indices(EMBEDDINGS_DIR)
InitRAG ==
    /\ \E built \in BookStores :
          /\ disk = SaveIndices(built, EmptyDir)
          /\ \E loaded \in {LoadIndices(VectorStoreInit, disk)} :
                /\ loaded.raised = NoError
                /\ text_index = loaded.store.text_index
                /\ image_index = loaded.store.image_index
                /\ chunk_mapping = loaded.store.chunk_mapping
                /\ image_mapping = loaded.store.image_mapping
    /\ result = Call("__init__", NoError, None, <<>>)
    /\ builder = NoBuilder
    /\ searcher = NoSearcher
    /\ AppNotStarted

\* rag_service.answer_question(question)
AnswerQuestionCall ==
    \E question \in Questions, embedded \in EmbedOutcomes, llm \in LLMOutcomes :
        \E out \in {AnswerQuestion(Store, question, embedded, llm)} :
           /\ SetStore(out.store)
           /\ result' = Call("answer_question", out.served.raised, out.served.value,
                             [question |-> question, llm |-> llm,
                              posts |-> out.served.posts, retrieved |-> out.retrieved,
                              images |-> out.images,
                              query_embedding |-> IF embedded.raised = NoError
                                                  THEN embedded.value ELSE <<>>,
                              embedded |-> embedded.raised, searches |-> out.searches])
           /\ UNCHANGED <<disk, threadVars, appVars, utilVars>>

\* rag_service.generate_answer(question, context_chunks) on the k best chunks
GenerateAnswerCall ==
    \E question \in Questions, query_embedding \in Vectors(EmbeddingDim), llm \in LLMOutcomes,
       k \in 0..TOP_K_CHUNKS :
        \E found \in {IF k = 0 THEN Return(<<>>) ELSE SearchText(Store, query_embedding, k)} :
           /\ found.raised = NoError
           /\ \E out \in {GenerateAnswer(question, found.value, llm)} :
                 result' = Call("generate_answer", out.raised, out.value,
                                [question |-> question, llm |-> llm,
                                 posts |-> out.posts, retrieved |-> found.value,
                                 images |-> <<>>, query_embedding |-> query_embedding,
                                 embedded |-> NoError, searches |-> 1])
           /\ UNCHANGED <<storeVars, disk, threadVars, appVars, utilVars>>

NextRAG ==
    \/ AnswerQuestionCall
    \/ GenerateAnswerCall

SpecRAG == InitRAG /\ [][NextRAG]_vars

---------------------------------------------------------------------------
(* One answer_question call, statement by statement: the calls it makes in *)
(* the order of lines 161-185, an exception of any of them ending it.  A   *)
(* request is a thread inside answer_question; there is one per question.  *)

\* a call of answer_question(question) before its first statement
IdleRequest(question) ==
    [pc |-> "idle", question |-> question, query_embedding |-> <<>>,
     text_chunks |-> <<>>, images |-> <<>>, steps |-> <<>>, failed |-> "",
     llm |-> "", raised |-> NoError, value |-> None]

\* the request ends with the exception raised of the call named failed
Failed(request, failed, raised) ==
    [request EXCEPT !.pc = "completed", !.failed = failed, !.raised = raised]

InitRequest ==
    /\ \E built \in BookStores :
          /\ disk = SaveIndices(built, EmptyDir)
          /\ \E loaded \in {LoadIndices(VectorStoreInit, disk)} :
                /\ loaded.raised = NoError
                /\ text_index = loaded.store.text_index
                /\ image_index = loaded.store.image_index
                /\ chunk_mapping = loaded.store.chunk_mapping
                /\ image_mapping = loaded.store.image_mapping
    /\ result = Call("__init__", NoError, None, <<>>)
    /\ builder = NoBuilder
    /\ searcher = NoSearcher
    /\ rag_service = None
    /\ model_loads = 0
    /\ chats = [question \in Questions |-> IdleRequest(question)]
    /\ api_key = TRUE
    /\ UtilsNotUsed

\* line 41: self.generator.generate_query_embedding(question)
EmbedQuestion(r) ==
    /\ chats[r].pc = "idle"
    /\ \E embedded \in EmbedOutcomes :
          chats' = [chats EXCEPT ![r] =
                      IF embedded.raised # NoError
                      THEN Failed(@, "embed", embedded.raised)
                      ELSE [@ EXCEPT !.pc = "embedded",
                                     !.query_embedding = embedded.value,
                                     !.steps = Append(@, "embed")]]
    /\ UNCHANGED <<storeVars, disk, result, threadVars, rag_service, model_loads, api_key, utilVars>>

\* lines 44-47: self.vector_store.search_text(query_embedding, k=TOP_K_CHUNKS)
SearchTextStep(r) ==
    /\ chats[r].pc = "embedded"
    /\ \E found \in {SearchText(Store, chats[r].query_embedding, TOP_K_CHUNKS)} :
          chats' = [chats EXCEPT ![r] =
                      IF found.raised # NoError
                      THEN Failed(@, "search_text", found.raised)
                      ELSE [@ EXCEPT !.pc = "text_searched",
                                     !.text_chunks = found.value,
                                     !.steps = Append(@, "search_text")]]
    /\ UNCHANGED <<storeVars, disk, result, threadVars, rag_service, model_loads, api_key, utilVars>>

\* lines 50-53: self.vector_store.search_images(query_embedding, k=TOP_K_IMAGES)
SearchImagesStep(r) ==
    /\ chats[r].pc = "text_searched"
    /\ \E found \in {SearchImages(Store, chats[r].query_embedding, TOP_K_IMAGES)} :
          chats' = [chats EXCEPT ![r] =
                      IF found.raised # NoError
                      THEN Failed(@, "search_images", found.raised)
                      ELSE [@ EXCEPT !.pc = "retrieved",
                                     !.images = found.value,
                                     !.steps = Append(@, "search_images")]]
    /\ UNCHANGED <<storeVars, disk, result, threadVars, rag_service, model_loads, api_key, utilVars>>

\* a generate_answer that posts as soon as the text search has returned
PostToModelEarly(r) ==
    /\ chats[r].pc \in {"text_searched", "retrieved"}
    /\ chats' = [chats EXCEPT ![r].pc = "posting", ![r].steps = Append(@, "post")]
    /\ UNCHANGED <<storeVars, disk, result, threadVars, rag_service, model_loads, api_key, utilVars>>

\* line 166, generate_answer up to line 102: the prompt is built and
\* requests.post(..., timeout=60) is called
PostToModel(r) ==
    /\ chats[r].pc = "retrieved"
    /\ chats' = [chats EXCEPT ![r].pc = "posting", ![r].steps = Append(@, "post")]
    /\ UNCHANGED <<storeVars, disk, result, threadVars, rag_service, model_loads, api_key, utilVars>>

\* a requests.post without a timeout to a model that stays silent
ModelNeverResponds(r) ==
    /\ chats[r].pc = "posting"
    /\ FALSE
    /\ UNCHANGED vars

\* requests.post returns or raises, after 60 s at the latest (llm is how);
\* the rest of generate_answer, then lines 171-185
ModelResponds(r) ==
    /\ chats[r].pc = "posting"
    /\ \E llm \in LLMOutcomes :
          \E answer \in {GenerateAnswer(chats[r].question, chats[r].text_chunks, llm)} :
             chats' = [chats EXCEPT ![r] =
                         IF answer.raised # NoError
                         THEN [Failed(@, "generate_answer", answer.raised) EXCEPT !.llm = llm]
                         ELSE [@ EXCEPT !.pc = "completed",
                                        !.llm = llm,
                                        !.value = Response(chats[r].question, answer.value,
                                                           chats[r].text_chunks,
                                                           chats[r].images),
                                        !.steps = Append(@, "answer")]]
    /\ UNCHANGED <<storeVars, disk, result, threadVars, rag_service, model_loads, api_key, utilVars>>

\* the next statement of request r
RequestStep(r) ==
    \/ EmbedQuestion(r)
    \/ SearchTextStep(r)
    \/ SearchImagesStep(r)
    \/ PostToModel(r)
    \/ ModelResponds(r)

NextRequest == \E r \in Questions : RequestStep(r)

SpecRequest == InitRequest /\ [][NextRequest]_vars

\* a thread inside answer_question runs on: every call it makes returns or
\* raises (the embedding and the searches compute, the post has a timeout)
SpecRequestFair == SpecRequest /\ \A r \in Questions : WF_vars(RequestStep(r))

---------------------------------------------------------------------------
(* Building a collection again, from the same or from another document *)

\* the documents a collection is built from
Docs == {0, 1}

\* the letter the texts of record i of a document are made of
DocLetter(doc, i) == Letters[((i - 1 + 3 * doc) % 6) + 1]

\* the first n embeddings of document doc
DocArrayOf(doc, n, d) == Array([i \in 1..n |-> DocRow(i - 1 + doc, d)], d)

\* the first c chunk dictionaries of document doc
ChunksOf(doc, c) ==
    [i \in 1..c |-> [id |-> ChunkId(i - 1),
                     text |-> <<DocLetter(doc, i)>>,
                     chunk_index |-> i - 1]]

\* the first c image metadata dictionaries of document doc
ImagesOf(doc, c) ==
    [i \in 1..c |-> [id |-> <<"img_">> \o IntToStr(i - 1),
                     filename |-> <<"img_">> \o IntToStr(i - 1) \o <<".png">>,
                     title |-> <<DocLetter(doc, i)>>,
                     description |-> <<DocLetter(doc, i), DocLetter(doc, i)>>,
                     keywords |-> <<<<DocLetter(doc, i)>>, <<"sound">>>>]]

\* the shapes of a build of n vectors with n ids and n records, and one build
\* whose vectors are too wide
RebuildShapes ==
    {[n |-> n, d |-> EmbeddingDim] : n \in 0..MaxRows}
    \cup {[n |-> 1, d |-> EmbeddingDim + 1]}

\* create_text_index on the store as it is; before: the vectors it held
RebuildTextCall ==
    \E doc \in Docs, s \in RebuildShapes :
        \E out \in {CreateTextIndex(Store, DocArrayOf(doc, s.n, s.d), ChunkIds(s.n),
                                    ChunksOf(doc, s.n))} :
           /\ SetStore(out.store)
           /\ result' = Call("create_text_index", out.raised, None,
                             [n |-> s.n, ids |-> s.n, doc |-> doc,
                              before |-> VectorCount(text_index)])
           /\ UNCHANGED <<disk, threadVars, appVars, utilVars>>

\* create_image_index on the store as it is
RebuildImagesCall ==
    \E doc \in Docs, s \in RebuildShapes :
        \E out \in {CreateImageIndex(Store, DocArrayOf(doc, s.n, s.d), ImageIds(s.n),
                                     ImagesOf(doc, s.n))} :
           /\ SetStore(out.store)
           /\ result' = Call("create_image_index", out.raised, None,
                             [n |-> s.n, ids |-> s.n, doc |-> doc,
                              before |-> VectorCount(image_index)])
           /\ UNCHANGED <<disk, threadVars, appVars, utilVars>>

NextRebuild ==
    \/ RebuildTextCall
    \/ RebuildImagesCall

SpecRebuild == Init /\ [][NextRebuild]_vars

\* builds and searches of both collections of one store, in any order
NextCollections ==
    \/ RebuildTextCall
    \/ RebuildImagesCall
    \/ SearchTextCall
    \/ SearchImagesCall

SpecCollections == Init /\ [][NextCollections]_vars

---------------------------------------------------------------------------
(* The server of main.py: one process, one event loop.  Every handler is   *)
(* an async function whose body calls the service synchronously, so a      *)
(* handler that has started holds the loop's thread until it returns,      *)
(* requests.post included.                                                 *)

\* most SentenceTransformer constructions followed in one process
MaxLoads == 3

\* what a build with an embedding model of dimension d saved: the book in
\* a VectorStore(embedding_dim=d), create_text_index, create_image_index,
\* save_indices
BuiltDir(d) ==
    SaveIndices(
        [text_index |-> FaissAdd(IndexFlatL2(d), DocArray(MaxChunks, d)).index,
         image_index |-> FaissAdd(IndexFlatL2(d), DocArray(MaxImages, d)).index,
         chunk_mapping |-> ChunkMappingOf(ChunkIds(MaxChunks), BookChunks(MaxChunks)),
         image_mapping |-> ImageMappingOf(ImageIds(MaxImages), Images(MaxImages))],
        EmptyDir)

\* the directories the server is started on: nothing saved, a store that was
\* never built, the whole book, the book embedded with a wider model
AppDirs ==
    {EmptyDir, SaveIndices(VectorStoreInit, EmptyDir), BuiltDir(EmbeddingDim + 1)} \cup
    {SaveIndices(
        CreateImageIndex(
            CreateTextIndex(VectorStoreInit, DocArray(MaxChunks, EmbeddingDim),
                            ChunkIds(MaxChunks), BookChunks(MaxChunks)).store,
            DocArray(MaxImages, EmbeddingDim), ImageIds(MaxImages),
            Images(MaxImages)).store,
        EmptyDir)}

\* the question of a /chat request
AppQuestion == <<"w", "h", "y">>

\* raise HTTPException(status_code=500, ...)
Http500 == "HTTPException 500"

InitApp ==
    /\ text_index = None
    /\ image_index = None
    /\ chunk_mapping = <<>>
    /\ image_mapping = <<>>
    /\ disk \in AppDirs
    /\ result = Call("__init__", NoError, None, <<>>)
    /\ builder = NoBuilder
    /\ searcher = NoSearcher
    /\ rag_service = None
    /\ model_loads = 0
    /\ chats = [c \in ChatIds |-> NoChat]
    /\ api_key \in BOOLEAN
    /\ UtilsNotUsed

\* a handler is inside requests.post: the thread of the event loop is taken
LoopBusy == \E c \in ChatIds : chats[c].pc = "posting"

\* get_rag_service(): the instance that exists, or RAGService() (a new
\* EmbeddingGenerator, a new VectorStore, load_indices) stored in the global
\* when the constructor returns
GetRagService(service, st, dir, loads) ==
    IF service # None
    THEN [raised |-> NoError, service |-> service, store |-> st, loads |-> loads]
    ELSE LET loaded == LoadIndices(VectorStoreInit, dir)
         IN IF loaded.raised # NoError
            THEN [raised |-> loaded.raised, service |-> None, store |-> st,
                  loads |-> loads + 1]
            ELSE [raised |-> NoError, service |-> [instance |-> loads + 1],
                  store |-> loaded.store, loads |-> loads + 1]

\* the call can be followed: it loads no model beyond MaxLoads
CanLoad == rag_service # None \/ model_loads < MaxLoads

\* startup_event(): config.validate(), then get_rag_service() in a try block
StartupEvent ==
    /\ ~LoopBusy
    /\ CanLoad
    /\ \E got \in {GetRagService(rag_service, Store, disk, model_loads)} :
          /\ rag_service' = got.service
          /\ model_loads' = got.loads
          /\ SetStore(got.store)
          /\ result' = Call("startup_event", NoError, None, [service |-> got.raised])
    /\ UNCHANGED <<disk, threadVars, chats, api_key, utilVars>>

\* GET /health: healthy when get_rag_service() returns, unhealthy otherwise
HealthCheck ==
    /\ ~LoopBusy
    /\ CanLoad
    /\ \E got \in {GetRagService(rag_service, Store, disk, model_loads)} :
          /\ rag_service' = got.service
          /\ model_loads' = got.loads
          /\ SetStore(got.store)
          /\ result' = Call("health_check", NoError,
                            [status |-> IF got.raised = NoError THEN "healthy" ELSE "unhealthy"],
                            [service |-> got.raised])
    /\ UNCHANGED <<disk, threadVars, chats, api_key, utilVars>>

\* a /chat request reaches the server: its handler waits for the loop
ChatArrives(c) ==
    /\ chats[c].pc \in {"none", "done"}
    /\ chats' = [chats EXCEPT ![c] = [NoChat EXCEPT !.pc = "pending", !.question = AppQuestion]]
    /\ UNCHANGED <<storeVars, disk, result, threadVars, rag_service, model_loads, api_key, utilVars>>

\* chat(), lines 185-197 up to requests.post: config.validate(),
\* get_rag_service(), retrieve_context; any exception becomes an HTTP 500
ChatBegins(c) ==
    /\ chats[c].pc = "pending"
    /\ ~LoopBusy
    /\ CanLoad
    /\ IF ~api_key
       THEN /\ chats' = [chats EXCEPT ![c].pc = "done"]
            /\ result' = Call("chat", Http500, None, [chat |-> c, posts |-> 0])
            /\ UNCHANGED <<storeVars, rag_service, model_loads>>
       ELSE \E got \in {GetRagService(rag_service, Store, disk, model_loads)},
               embedded \in EmbedOutcomes :
               /\ rag_service' = got.service
               /\ model_loads' = got.loads
               /\ SetStore(got.store)
               /\ \E context \in {IF got.raised # NoError
                                  THEN Retrieved(got.raised, None, 0)
                                  ELSE RetrieveContext(got.store, embedded)} :
                     IF context.raised # NoError
                     THEN /\ chats' = [chats EXCEPT ![c].pc = "done"]
                          /\ result' = Call("chat", Http500, None,
                                            [chat |-> c, posts |-> 0])
                     ELSE /\ chats' = [chats EXCEPT
                                          ![c].pc = "posting",
                                          ![c].text_chunks = context.value.text_chunks,
                                          ![c].images = context.value.images]
                          /\ UNCHANGED result
    /\ UNCHANGED <<disk, threadVars, api_key, utilVars>>

\* chat(), from the end of requests.post (at most 60 s later) to the
\* response: the rest of generate_answer and of answer_question
ChatEnds(c) ==
    /\ chats[c].pc = "posting"
    /\ \E llm \in LLMOutcomes :
          \E answer \in {GenerateAnswer(chats[c].question, chats[c].text_chunks, llm)} :
             result' =
                IF answer.raised # NoError
                THEN Call("chat", Http500, None, [chat |-> c, posts |-> answer.posts])
                ELSE Call("chat", NoError,
                          Response(chats[c].question, answer.value,
                                   chats[c].text_chunks, chats[c].images),
                          [chat |-> c, posts |-> answer.posts])
    /\ chats' = [chats EXCEPT ![c].pc = "done"]
    /\ UNCHANGED <<storeVars, disk, threadVars, rag_service, model_loads, api_key, utilVars>>

\* the store upload_pdf builds for a document of n chunks: a VectorStore of
\* its own, create_text_index
UploadedStore(doc, n) ==
    CreateTextIndex(VectorStoreInit, DocArrayOf(doc, n, EmbeddingDim), ChunkIds(n),
                    ChunksOf(doc, n))

\* POST /upload: the checks of the file, PDFProcessor, a new
\* EmbeddingGenerator, a new VectorStore, create_text_index, the response.
\* The HTTPException(400) of a check is raised inside the try block: the
\* except Exception clause of lines 169-173 catches it and raises the 500.
\* saved: the file was written to UPLOAD_DIR; chunked: process_pdf ran.
UploadPdf ==
    /\ ~LoopBusy
    /\ \E is_pdf \in BOOLEAN, too_large \in BOOLEAN, doc \in Docs, n \in 1..MaxVecs :
          IF ~is_pdf \/ too_large
          THEN /\ result' = Call("upload_pdf", Http500, None,
                                 [doc |-> doc, n |-> n, built |-> VectorStoreInit,
                                  is_pdf |-> is_pdf, too_large |-> too_large,
                                  saved |-> FALSE, chunked |-> FALSE])
               /\ UNCHANGED model_loads
          ELSE /\ model_loads < MaxLoads
               /\ model_loads' = model_loads + 1
               /\ \E built \in {UploadedStore(doc, n)} :
                     result' =
                        IF built.raised # NoError
                        THEN Call("upload_pdf", Http500, None,
                                  [doc |-> doc, n |-> n, built |-> built.store,
                                   is_pdf |-> is_pdf, too_large |-> too_large,
                                   saved |-> TRUE, chunked |-> TRUE])
                        ELSE Call("upload_pdf", NoError,
                                  [status |-> "success", chunks_created |-> n],
                                  [doc |-> doc, n |-> n, built |-> built.store,
                                   is_pdf |-> is_pdf, too_large |-> too_large,
                                   saved |-> TRUE, chunked |-> TRUE])
    /\ UNCHANGED <<storeVars, disk, threadVars, rag_service, chats, api_key, utilVars>>

NextApp ==
    \/ StartupEvent
    \/ HealthCheck
    \/ \E c \in ChatIds : ChatArrives(c)
    \/ \E c \in ChatIds : ChatBegins(c)
    \/ \E c \in ChatIds : ChatEnds(c)
    \/ UploadPdf

SpecApp == InitApp /\ [][NextApp]_vars

---------------------------------------------------------------------------
(* The functions of the backend that keep no state: chunk_text,            *)
(* validate_question, _distance_to_similarity.  The arguments are drawn at *)
(* the start and the function is applied to them.                          *)

\* longest text of the small texts chunked
MaxText == 5

\* the defaults of PDFProcessor.__init__
DefaultChunkSize == 1000
DefaultChunkOverlap == 200

\* a letter, the characters the separators are made of
TextAlphabet == {"a", " ", "\n", "."}

\* a document of paragraphs of letters, lens[k] letters in paragraph k,
\* with an empty line ("\n\n") between two paragraphs
RECURSIVE ParagraphEnd(_, _)
ParagraphEnd(lens, k) == IF k = 0 THEN -2 ELSE ParagraphEnd(lens, k - 1) + 2 + lens[k]
Document(lens) ==
    [p \in 1..ParagraphEnd(lens, Len(lens)) |->
        IF \E k \in 1..(Len(lens) - 1) :
              p \in {ParagraphEnd(lens, k) + 1, ParagraphEnd(lens, k) + 2}
        THEN "\n" ELSE "a"]

\* the processors and texts chunk_text is called with: every short text
\* with small chunks, and documents of 2500 characters (one run of letters,
\* four paragraphs, five paragraphs) with the default processor
ChunkTextInputs ==
    {[fn |-> "chunk_text", text |-> text, chunk_size |-> size[1], chunk_overlap |-> size[2]] :
        text \in UNION {[1..n -> TextAlphabet] : n \in 0..MaxText},
        size \in {<<2, 0>>, <<3, 1>>, <<4, 2>>}}
    \cup {[fn |-> "chunk_text", text |-> Document(lens),
           chunk_size |-> DefaultChunkSize, chunk_overlap |-> DefaultChunkOverlap] :
            lens \in {<<2500>>, <<624, 624, 623, 623>>, <<498, 499, 499, 499, 497>>}}
    \cup {[fn |-> "chunk_text", text |-> Document(<<24>>), chunk_size |-> 3, chunk_overlap |-> 1]}

\* the bounds of validate_question
MaxQuestionChars == 1000
MinQuestionChars == 3

\* a validate_question that rejects MaxQuestionChars characters too
ValidateQuestionExclusive(question) ==
    IF Len(question) = 0 \/ \A i \in 1..Len(question) : question[i] \in Whitespace
    THEN [valid |-> FALSE, message |-> "Question cannot be empty"]
    ELSE IF Len(question) >= MaxQuestionChars
    THEN [valid |-> FALSE, message |-> "Question too long (max 1000 characters)"]
    ELSE IF Len(question) < MinQuestionChars
    THEN [valid |-> FALSE, message |-> "Question too short (min 3 characters)"]
    ELSE [valid |-> TRUE, message |-> ""]

\* validate_question(question): (is_valid, error_message)
ValidateQuestion(question) ==
    IF Len(question) = 0 \/ \A i \in 1..Len(question) : question[i] \in Whitespace
    THEN [valid |-> FALSE, message |-> "Question cannot be empty"]
    ELSE IF Len(question) > MaxQuestionChars
    THEN [valid |-> FALSE, message |-> "Question too long (max 1000 characters)"]
    ELSE IF Len(question) < MinQuestionChars
    THEN [valid |-> FALSE, message |-> "Question too short (min 3 characters)"]
    ELSE [valid |-> TRUE, message |-> ""]

\* longest of the short questions validated
MaxQuestion == 4

\* the questions validate_question is called with: every question of letters
\* and spaces up to MaxQuestion characters, and questions around
\* MaxQuestionChars characters, of letters, of spaces, and of both
ValidateQuestionInputs ==
    {[fn |-> "validate_question", question |-> question] :
        question \in UNION {[1..n -> {"a", " "}] : n \in 0..MaxQuestion}}
    \cup UNION {{[fn |-> "validate_question",
                  question |-> [i \in 1..n |-> IF i \in blanks THEN " " ELSE "a"]] :
                    blanks \in {{}, {1}, 1..(n - 1), 1..n}} :
                 n \in (MaxQuestionChars - 1)..(MaxQuestionChars + 1)}

\* largest distance converted, and the size of the unit the small
\* distances are counted in: 2^-DistanceBits
MaxDistance == 40
DistanceBits == 26

\* the distances _distance_to_similarity is called with: 0, 1, 2, ... and
\* 0, 1, 2, ... times 2^-DistanceBits
SimilarityInputs ==
    {[fn |-> "_distance_to_similarity", distance |-> distance, one |-> one] :
        distance \in 0..MaxDistance, one \in {1, Pow2(DistanceBits)}}

InitFunctions ==
    /\ text_index = None
    /\ image_index = None
    /\ chunk_mapping = <<>>
    /\ image_mapping = <<>>
    /\ disk = EmptyDir
    /\ \/ \E input \in ChunkTextInputs : result = Call("pending", NoError, None, input)
       \/ \E input \in ValidateQuestionInputs :
             result = Call("pending", NoError, None, input)
       \/ \E input \in SimilarityInputs : result = Call("pending", NoError, None, input)
    /\ builder = NoBuilder
    /\ searcher = NoSearcher
    /\ AppNotStarted

\* PDFProcessor(chunk_size, chunk_overlap).chunk_text(text)
ChunkTextCall ==
    /\ result.op = "pending"
    /\ result.args.fn = "chunk_text"
    /\ result' = Call("chunk_text", NoError,
                      ChunkText(result.args.text, result.args.chunk_size,
                                result.args.chunk_overlap),
                      result.args)
    /\ UNCHANGED <<storeVars, disk, threadVars, appVars, utilVars>>

\* validate_question(question)
ValidateQuestionCall ==
    /\ result.op = "pending"
    /\ result.args.fn = "validate_question"
    /\ result' = Call("validate_question", NoError,
                      ValidateQuestion(result.args.question), result.args)
    /\ UNCHANGED <<storeVars, disk, threadVars, appVars, utilVars>>

\* self._distance_to_similarity(distance)
DistanceToSimilarityCall ==
    /\ result.op = "pending"
    /\ result.args.fn = "_distance_to_similarity"
    /\ result' = Call("_distance_to_similarity", NoError,
                      Similarity(result.args.distance, result.args.one), result.args)
    /\ UNCHANGED <<storeVars, disk, threadVars, appVars, utilVars>>

NextFunctions ==
    \/ ChunkTextCall
    \/ ValidateQuestionCall
    \/ DistanceToSimilarityCall

SpecFunctions == InitFunctions /\ [][NextFunctions]_vars

---------------------------------------------------------------------------
(* Properties of the store *)

\* the slot positions of n vectors
Slots(n) == 0..(n - 1)

\* two calls ended the same way: the same exception, or the same value
SameOutcome(a, b) == a.raised = b.raised /\ (a.raised = NoError => a.value = b.value)

(* C1: after any sequence of builds, saves and loads, each index holds as   *)
(* many vectors as its mapping has entries, and the mapping's keys are the  *)
(* slot positions 0..n-1.                                                   *)
C1_SlotsMatchVectors ==
    /\ DOMAIN chunk_mapping = Slots(VectorCount(text_index))
    /\ DOMAIN image_mapping = Slots(VectorCount(image_index))

(* C2: when a rebuild of the text collection interleaves with a search of  *)
(* it, the search never observes an index whose vector count differs from  *)
(* the number of mapping entries it reads: what it saw of the index and     *)
(* what it saw of the mapping belong to the same build.                     *)
C2_SearchSeesOneBuild ==
    searcher.looked_up => searcher.seen_vectors = searcher.seen_entries

(* C3: a search asking for more results than the index holds does not       *)
(* raise; it returns one result per stored slot.  Stated for an index whose *)
(* mapping matches it and a query of the index's dimension.                 *)
C3_LargeKReturnsAll ==
    /\ ( /\ result.op = "search_text"
         /\ text_index # None
         /\ DOMAIN chunk_mapping = Slots(VectorCount(text_index))
         /\ Len(result.args.q) = text_index.d
         /\ result.args.k > text_index.ntotal )
       => /\ result.raised = NoError
          /\ Len(result.value) = text_index.ntotal
          /\ \A slot \in DOMAIN chunk_mapping :
               Cardinality({i \in 1..Len(result.value) :
                   result.value[i].chunk_id = chunk_mapping[slot].chunk_id}) = 1
    /\ ( /\ result.op = "search_images"
         /\ image_index # None
         /\ DOMAIN image_mapping = Slots(VectorCount(image_index))
         /\ Len(result.args.q) = image_index.d
         /\ result.args.k > image_index.ntotal )
       => /\ result.raised = NoError
          /\ Len(result.value) = image_index.ntotal
          /\ \A slot \in DOMAIN image_mapping :
               Cardinality({i \in 1..Len(result.value) :
                   result.value[i].image_id = image_mapping[slot].image_id}) = 1

C5_MismatchedBuildRejected ==
    [][ ( /\ result'.op \in {"create_text_index", "create_image_index"}
          /\ result'.args.n # result'.args.ids )
        => (result'.raised # NoError /\ UNCHANGED storeVars) ]_vars

---------------------------------------------------------------------------
(* Properties of the service *)

\* a call of the service whose post to the language model failed
ModelCallFailed ==
    /\ result.op \in {"answer_question", "generate_answer"}
    /\ result.args.llm \in RequestExceptions
    /\ result.args.posts >= 1

\* the answer text a call of the service returned
AnswerText == IF result.op = "answer_question" THEN result.value.answer ELSE result.value

StartsWith(s, p) == Len(p) <= Len(s) /\ SubSeq(s, 1, Len(p)) = p

Contains(s, p) == \E i \in 0..(Len(s) - Len(p)) : SubSeq(s, i + 1, i + Len(p)) = p

(* C6: when the call to the language model fails (timeout, connection      *)
(* error, non-2xx response), answer_question and generate_answer return an  *)
(* answer and raise nothing, whatever the list of retrieved chunks is.      *)
C6_ModelFailureNeverPropagates ==
    ModelCallFailed => result.raised = NoError

(* C7: when the call to the language model fails, the answer returned      *)
(* starts with the fixed apology text and contains the first 500           *)
(* characters of the rank-1 chunk, and of no other retrieved chunk.        *)
C7_FallbackQuotesTopChunk ==
    (ModelCallFailed /\ result.raised = NoError) =>
        /\ StartsWith(AnswerText, Apology)
        /\ Contains(AnswerText, Prefix(result.args.retrieved[1].text, FallbackChars))
        /\ \A j \in 2..Len(result.args.retrieved) :
              ~Contains(AnswerText, Prefix(result.args.retrieved[j].text, FallbackChars))

C7_Witness ==
    /\ result.op = "answer_question"
    /\ result.args.llm = "timeout"
    /\ result.raised = NoError
    /\ Len(result.args.retrieved) = TOP_K_CHUNKS
    /\ Len(result.args.retrieved[1].text) > FallbackChars
    /\ Len(result.args.retrieved[2].text) < FallbackChars

(* C8: one call of answer_question (or generate_answer) posts to the       *)
(* language model at most once, when the model answers and when the        *)
(* fallback answer is built alike.                                         *)
C8_AtMostOnePost ==
    result.op \in {"answer_question", "generate_answer"} => result.args.posts <= 1

C8_Witness ==
    /\ result.op = "answer_question"
    /\ result.args.llm = "http_error"
    /\ result.args.posts = 1
    /\ result.raised = NoError
    /\ StartsWith(result.value.answer, Apology)

(* C9: on a text index of zero entries answer_question succeeds: it raises *)
(* nothing, whether the model call succeeds or fails, and its response     *)
(* carries an empty list of context chunks.                                *)
C9_EmptyIndexAnswers ==
    ( /\ result.op = "answer_question"
      /\ text_index # None
      /\ text_index.ntotal = 0
      /\ image_index # None
      /\ image_index.ntotal >= TOP_K_IMAGES )
    => ( /\ result.raised = NoError
         /\ Len(result.value.context_chunks) = 0 )

---------------------------------------------------------------------------
(* Properties of the saved directory *)

\* the vectors of an index file and the entries of a mapping file
FileVectors(file) == IF file = NoFile THEN 0 ELSE file.ntotal
FileEntries(file) == IF file = NoFile THEN 0 ELSE Len(file.object)

\* both files of a collection exist and disagree on the number of entries
MismatchedPair(index_file, mapping_file) ==
    /\ index_file # NoFile
    /\ mapping_file # NoFile
    /\ FileVectors(index_file) # FileEntries(mapping_file)

(* C11: load_indices on a directory whose index file and mapping file of a *)
(* collection hold different numbers of entries fails, and the store is    *)
(* not left with that index next to that mapping.                          *)
C11_MismatchedLoadRejected ==
    /\ ( /\ result.op = "load_indices"
         /\ MismatchedPair(disk.text_vectors, disk.chunk_mapping_json) )
       => /\ result.raised # NoError
          /\ VectorCount(text_index) = Cardinality(DOMAIN chunk_mapping)
    /\ ( /\ result.op = "load_indices"
         /\ MismatchedPair(disk.image_vectors, disk.image_mapping_json) )
       => /\ result.raised # NoError
          /\ VectorCount(image_index) = Cardinality(DOMAIN image_mapping)

\* a file of the directory exists
Present(file) == file # NoFile

(* C12: the index file and the mapping file of a collection are written    *)
(* together and loaded together: after save_indices a mapping file never   *)
(* stands without its index file, and load_indices on a directory holding  *)
(* one file of a pair without the other fails with VectorStoreError.       *)
C12_PairsWrittenAndLoadedTogether ==
    /\ result.op = "save_indices" =>
          /\ Present(disk.chunk_mapping_json) => Present(disk.text_vectors)
          /\ Present(disk.image_mapping_json) => Present(disk.image_vectors)
    /\ ( /\ result.op = "load_indices"
         /\ \/ Present(disk.chunk_mapping_json) # Present(disk.text_vectors)
            \/ Present(disk.image_mapping_json) # Present(disk.image_vectors) )
       => result.raised = "VectorStoreError"

---------------------------------------------------------------------------
(* Properties of the results of a search *)

\* the slot a returned chunk / image is stored at
SlotOfChunk(chunk_id) == CHOOSE s \in DOMAIN chunk_mapping : chunk_mapping[s].chunk_id = chunk_id
SlotOfImage(image_id) == CHOOSE s \in DOMAIN image_mapping : image_mapping[s].image_id = image_id

\* the slots of the results of the last search, in the order returned
ResultSlots ==
    [i \in 1..Len(result.value) |->
        IF result.op = "search_text" THEN SlotOfChunk(result.value[i].chunk_id)
        ELSE SlotOfImage(result.value[i].image_id)]

\* the last call was a search that returned results
SearchReturned ==
    /\ result.op \in {"search_text", "search_images"}
    /\ result.raised = NoError

\* the index the last search ran on
SearchedIndex == IF result.op = "search_text" THEN text_index ELSE image_index

ScenarioStore ==
    [VectorStoreInit EXCEPT
        !.text_index = FaissAdd(IndexFlatL2(2),
                                Array(<<<<0, 0>>, <<10, 0>>, <<50, 50>>>>, 2)).index,
        !.chunk_mapping = ChunkMappingOf(<<"a", "b", "c">>, Chunks(3))]

ScenarioResults == SearchText(ScenarioStore, <<1, 0>>, 2)

(* C14: search is exact: the results are k distinct stored entries, every  *)
(* stored entry that is not returned is at least as far from the query as  *)
(* every returned one, each distance reported is the squared Euclidean     *)
(* distance of the vector at that slot, and each result carries the        *)
(* metadata stored at that slot; vectors [[0,0],[1,0],[5,5]] with ids      *)
(* a, b, c and query [0.1, 0], k = 2 give a then b.                        *)
C14_SearchIsExact ==
    /\ SearchReturned =>
          /\ Len(result.value) = result.args.k
          /\ \A i, j \in 1..Len(result.value) : i # j => ResultSlots[i] # ResultSlots[j]
          /\ \A i \in 1..Len(result.value) :
                /\ result.value[i].rank = i
                /\ result.value[i].distance =
                      L2Sqr(Reconstruct(SearchedIndex, ResultSlots[i]), result.args.q)
                /\ result.op = "search_text" =>
                      result.value[i].text = chunk_mapping[ResultSlots[i]].text
                /\ result.op = "search_images" =>
                      /\ result.value[i].filename = image_mapping[ResultSlots[i]].filename
                      /\ result.value[i].title = image_mapping[ResultSlots[i]].title
                      /\ result.value[i].description = image_mapping[ResultSlots[i]].description
                /\ \A s \in Slots(SearchedIndex.ntotal) :
                      (\A j \in 1..Len(result.value) : ResultSlots[j] # s)
                         => result.value[i].distance
                               <= L2Sqr(Reconstruct(SearchedIndex, s), result.args.q)
    /\ ScenarioResults.raised = NoError
    /\ [i \in 1..2 |-> ScenarioResults.value[i].chunk_id] = <<"a", "b">>
    /\ [i \in 1..2 |-> ScenarioResults.value[i].distance] = <<1, 81>>

\* a search for the one nearest of two stored vectors returned the second
C14_Witness ==
    /\ SearchReturned
    /\ SearchedIndex.ntotal = 2
    /\ result.args.k = 1
    /\ ResultSlots[1] = 1
    /\ result.value[1].distance < L2Sqr(Reconstruct(SearchedIndex, 0), result.args.q)

---------------------------------------------------------------------------
(* Properties of a request to the service *)

(* C15: when the embedding of the question fails, answer_question raises   *)
(* that error: no answer is returned, no index is searched and no call to  *)
(* the language model is made for the request.                             *)
C15_EmbeddingFailurePropagates ==
    ( /\ result.op = "answer_question"
      /\ result.args.embedded # NoError )
    => /\ result.raised = result.args.embedded
       /\ result.args.searches = 0
       /\ result.args.posts = 0

\* the embedding failed on a service whose indices could have answered
C15_Witness ==
    /\ result.op = "answer_question"
    /\ result.args.embedded = EmbeddingFailed
    /\ result.raised = EmbeddingFailed
    /\ VectorCount(text_index) >= TOP_K_CHUNKS
    /\ VectorCount(image_index) >= TOP_K_IMAGES

(* C16: answer_question leaves both indices, both mappings and the saved   *)
(* directory as they were, whether the model call succeeds or fails.       *)
C16_AnswerQuestionChangesNothing ==
    [][ result'.op = "answer_question" => UNCHANGED <<storeVars, disk>> ]_vars

\* a question was answered by the language model from a built store
C16_Witness ==
    /\ result.op = "answer_question"
    /\ result.raised = NoError
    /\ result.args.llm = "ok"
    /\ result.args.searches = 2
    /\ VectorCount(text_index) >= TOP_K_CHUNKS

---------------------------------------------------------------------------
(* Properties of a rebuild *)

(* C19: a successful create_text_index / create_image_index on a store     *)
(* that may already hold an index leaves the collection with exactly the   *)
(* vectors and records of the new build, none of the build before, and     *)
(* leaves the other collection as it was.                                  *)
C19_RebuildReplaces ==
    [][ /\ ( /\ result'.op = "create_text_index"
             /\ result'.raised = NoError )
           => /\ text_index'.ntotal = result'.args.n
              /\ \A i \in Slots(result'.args.n) :
                    Reconstruct(text_index', i) = DocRow(i + result'.args.doc, EmbeddingDim)
              /\ DOMAIN chunk_mapping' = Slots(result'.args.ids)
              /\ \A i \in Slots(result'.args.ids) :
                    chunk_mapping'[i].text = <<DocLetter(result'.args.doc, i + 1)>>
              /\ UNCHANGED <<image_index, image_mapping>>
        /\ ( /\ result'.op = "create_image_index"
             /\ result'.raised = NoError )
           => /\ image_index'.ntotal = result'.args.n
              /\ \A i \in Slots(result'.args.n) :
                    Reconstruct(image_index', i) = DocRow(i + result'.args.doc, EmbeddingDim)
              /\ DOMAIN image_mapping' = Slots(result'.args.ids)
              /\ \A i \in Slots(result'.args.ids) :
                    image_mapping'[i].title = <<DocLetter(result'.args.doc, i + 1)>>
              /\ UNCHANGED <<text_index, chunk_mapping>>
      ]_vars

\* the text collection was built from the second document on a store that
\* held vectors of an earlier build, next to a built image collection
C19_Witness ==
    /\ result.op = "create_text_index"
    /\ result.raised = NoError
    /\ result.args.before >= 1
    /\ result.args.n >= 1
    /\ result.args.doc = 1
    /\ chunk_mapping[0].text # <<DocLetter(0, 1)>>
    /\ VectorCount(image_index) >= 1

---------------------------------------------------------------------------
(* Properties of the server *)

(* C17: while one /chat request waits in the HTTP call to the language     *)
(* model, another /chat request that has arrived can run its embedding     *)
(* and its index searches: the model call does not keep other requests     *)
(* from the indices.                                                       *)
C17_ModelCallDoesNotBlockSearch ==
    \A a, b \in ChatIds :
        (chats[a].pc = "posting" /\ chats[b].pc = "pending") => ENABLED ChatBegins(b)

C20_ModelInitializedOnce ==
    [][ /\ model_loads' <= 1
        /\ rag_service # None => rag_service' = rag_service ]_vars

---------------------------------------------------------------------------
(* The response of answer_question *)

\* answer_question returned a response dictionary
Answered == result.op = "answer_question" /\ result.raised = NoError

\* what search_text and search_images return for the question of the last
\* answer_question call (the call leaves the store as it was)
AnswerTextResults == SearchText(Store, result.args.query_embedding, TOP_K_CHUNKS).value
AnswerImageResults == SearchImages(Store, result.args.query_embedding, TOP_K_IMAGES).value

\* the chunks of the response are the text search results, in rank order,
\* each with its id and similarity score, and preview(text) as its text
ListsResults(preview(_)) ==
    LET chunks == result.value.context_chunks
        found == AnswerTextResults
    IN /\ Len(chunks) = Len(found)
       /\ Len(chunks) <= TOP_K_CHUNKS
       /\ \A i \in 1..Len(chunks) :
             /\ chunks[i].chunk_id = found[i].chunk_id
             /\ chunks[i].text = preview(found[i].text)
             /\ chunks[i].similarity = found[i].similarity_score

\* the image of the response is the best image found, or None
AttachesTopImage ==
    LET found == AnswerImageResults
    IN IF Len(found) > 0 THEN result.value.image = found[1]
       ELSE result.value.image = None

FirstChars(text) == Prefix(text, PreviewChars)
FirstCharsAndEllipsis(text) == Prefix(text, PreviewChars) \o Ellipsis

\* C21 as stated: a response of answer_question lists the text search results
\* in order, at most TOP_K_CHUNKS of them, each with its chunk id, the first
\* 200 characters of its text as preview and its similarity score, and its
\* image is the rank-1 image result, or None when no image was found.
C21_PreviewIsFirstChars ==
    Answered => ListsResults(FirstChars) /\ AttachesTopImage

\* C21, amended: as above, but the preview is the first 200 characters of
\* the text followed by "...", whether or not the text was longer.
C21_ResponseListsResults ==
    Answered => ListsResults(FirstCharsAndEllipsis) /\ AttachesTopImage

\* an answer over three chunks, one longer and one shorter than the preview,
\* with an image attached
C21_Witness ==
    /\ Answered
    /\ Len(AnswerTextResults) = TOP_K_CHUNKS
    /\ \E i \in 1..Len(AnswerTextResults) : Len(AnswerTextResults[i].text) > PreviewChars
    /\ \E i \in 1..Len(AnswerTextResults) : Len(AnswerTextResults[i].text) < PreviewChars
    /\ Len(AnswerImageResults) > 0
    /\ result.value.image = AnswerImageResults[1]

---------------------------------------------------------------------------
(* Properties of chunk_text *)

\* chunk_text returned
Chunked == result.op = "chunk_text" /\ result.raised = NoError

\* the pieces of the text the chunks of the last chunk_text call are
ChunkRanges ==
    SplitText(result.args.text, 1, Len(result.args.text), 1,
              result.args.chunk_size, result.args.chunk_overlap)

\* chunk indexes around every change of the number of digits
IdIndexes == {0, 1, 9, 10, 11, 99, 100, 999, 1000, 9999, 10000, 10001, 99999, 100000}

\* id is "chunk_" and the decimal digits of idx, with zeros in front up to
\* four digits and none beyond
IsPaddedId(id, idx) ==
    /\ Len(id) >= 5
    /\ id[1] = "chunk_"
    /\ \A p \in 2..Len(id) : \E d \in 1..10 : id[p] = Digits[d]
    /\ StrToInt(Tail(id)) = idx
    /\ Len(id) > 5 => id[2] # "0"

C23_ChunksBoundedAndOverlapping ==
    Chunked =>
       LET chunks == result.value
           ranges == ChunkRanges
       IN /\ \A n \in 1..Len(chunks) : Len(chunks[n].text) <= result.args.chunk_size
          /\ result.args.chunk_overlap > 0 =>
                \A n \in 2..Len(chunks) :
                   /\ ranges[n].lo > ranges[n - 1].lo
                   /\ ranges[n].lo <= ranges[n - 1].hi
          /\ (/\ Len(result.args.text) = 2500
              /\ result.args.chunk_size = DefaultChunkSize
              /\ result.args.chunk_overlap = DefaultChunkOverlap)
             => Len(chunks) = 3

---------------------------------------------------------------------------
(* Properties of the embedding dimension *)

\* the indices the store of the service holds
HeldIndices == {index \in {text_index, image_index} : index # None}

(* C24: a build given vectors whose length differs from the dimension the  *)
(* store is configured with fails (any exception is accepted here; the     *)
(* specification names it DimensionMismatchError), and a service never     *)
(* holds, unreported, an index whose dimension differs from the configured *)
(* one: constructing the service over such an index fails.                 *)
C24_DimensionMismatchReported ==
    /\ \A n \in 1..MaxVecs :
          /\ CreateTextIndex(Store, DocArray(n, EmbeddingDim + 1), ChunkIds(n),
                             Chunks(n)).raised # NoError
          /\ CreateImageIndex(Store, DocArray(n, EmbeddingDim + 1), ImageIds(n),
                              Images(n)).raised # NoError
    /\ rag_service # None => \A index \in HeldIndices : index.d = EmbeddingDim

---------------------------------------------------------------------------
(* Properties of the similarity score *)

\* _distance_to_similarity returned
Scored == result.op = "_distance_to_similarity" /\ result.raised = NoError

\* the fraction s is larger than the fraction t (both of the same numerator)
LargerScore(s, t) == s.num = t.num /\ s.den < t.den

(* C25: the similarity of a distance d >= 0 is 1 / (1 + d): it is above 0  *)
(* and at most 1, it is 1 exactly when d is 0, and a larger distance has a *)
(* strictly smaller similarity.                                            *)
C25_SimilarityStrictlyDecreasing ==
    Scored =>
       LET s == result.value
           d == result.args.distance
       IN /\ 0 < s.num
          /\ s.num <= s.den
          /\ s.num = s.den <=> d = 0
          /\ \A further \in (d + 1)..MaxDistance :
                LargerScore(s, Similarity(further, result.args.one))

---------------------------------------------------------------------------
(* Properties of validate_question *)

\* validate_question returned
Validated == result.op = "validate_question" /\ result.raised = NoError

(* C27: validate_question answers valid exactly for the questions that     *)
(* hold a character other than whitespace and are 3 to 1000 characters     *)
(* long, both included; every other question (empty, blank, shorter than   *)
(* 3, longer than 1000) is answered invalid with a message that is not     *)
(* empty.                                                                  *)
C27_ValidExactlyInRange ==
    Validated =>
       LET question == result.args.question
           blank == \A i \in 1..Len(question) : question[i] \in {" ", "\n"}
       IN /\ result.value.valid <=> (~blank /\ Len(question) >= 3 /\ Len(question) <= 1000)
          /\ ~result.value.valid => result.value.message # ""

\* a question of exactly 1000 characters is accepted, and one of 1001
\* characters, an empty one and one of 2 characters would be rejected
C27_Witness ==
    /\ Validated
    /\ Len(result.args.question) = 1000
    /\ result.value.valid
    /\ \E i \in 1..1000 : result.args.question[i] = " "

---------------------------------------------------------------------------
(* Properties of the two collections *)

\* the fields of the results of search_text and of search_images
ChunkResultFields == {"rank", "chunk_id", "text", "distance", "similarity_score"}
ImageResultFields == {"rank", "image_id", "filename", "title", "description",
                      "keywords", "distance", "similarity_score"}

(* C26: the text and the image collection are independent.  A call of      *)
(* create_text_index or search_text, whether it returns or raises, leaves  *)
(* image_index and image_mapping as they were, and search_text returns     *)
(* chunk records only, each of an entry of chunk_mapping; a call of        *)
(* create_image_index or search_images leaves text_index and chunk_mapping *)
(* as they were, and search_images returns image records only, each of an  *)
(* entry of image_mapping.                                                 *)
C26_CollectionsIndependent ==
    [][ /\ result'.op \in {"create_text_index", "search_text"}
           => UNCHANGED <<image_index, image_mapping>>
        /\ result'.op \in {"create_image_index", "search_images"}
           => UNCHANGED <<text_index, chunk_mapping>>
        /\ (result'.op = "search_text" /\ result'.raised = NoError)
           => \A i \in 1..Len(result'.value) :
                 /\ DOMAIN result'.value[i] = ChunkResultFields
                 /\ \E slot \in DOMAIN chunk_mapping :
                       /\ chunk_mapping[slot].chunk_id = result'.value[i].chunk_id
                       /\ chunk_mapping[slot].text = result'.value[i].text
        /\ (result'.op = "search_images" /\ result'.raised = NoError)
           => \A i \in 1..Len(result'.value) :
                 /\ DOMAIN result'.value[i] = ImageResultFields
                 /\ \E slot \in DOMAIN image_mapping :
                       /\ image_mapping[slot].image_id = result'.value[i].image_id
                       /\ image_mapping[slot].title = result'.value[i].title
      ]_vars

\* a search of the text collection returned chunks while the store holds a
\* built image collection of another size
C26_Witness ==
    /\ result.op = "search_text"
    /\ result.raised = NoError
    /\ Len(result.value) > 0
    /\ image_index # None
    /\ image_index.ntotal > 0
    /\ image_index.ntotal # text_index.ntotal

---------------------------------------------------------------------------
(* Properties of the steps of a request *)

\* the calls of one answer_question, in the order of the source
RequestOrder == <<"embed", "search_text", "search_images", "post", "answer">>

(* C28: within one answer_question call the steps happen in the order      *)
(* embed the question, search the text index, search the image index, post *)
(* to the language model, return the Answer: what a request has done so    *)
(* far is always a beginning of that sequence, so the model is never       *)
(* posted to before both searches returned; and when a search raised, the  *)
(* request has ended without a post and without an Answer.                 *)
C28_StepsInOrder ==
    \A r \in Questions :
       LET request == chats[r]
       IN /\ Len(request.steps) <= Len(RequestOrder)
          /\ request.steps = SubSeq(RequestOrder, 1, Len(request.steps))
          /\ request.failed \in {"search_text", "search_images"}
             => /\ request.pc = "completed"
                /\ \A i \in 1..Len(request.steps) : request.steps[i] \notin {"post", "answer"}
                /\ request.llm = ""
                /\ request.raised # NoError
                /\ request.value = None

\* one request went through all five steps and returned an Answer, next to
\* one that has not searched yet
C28_Witness ==
    \E r, other \in Questions :
       /\ chats[r].pc = "completed"
       /\ chats[r].steps = RequestOrder
       /\ Len(chats[r].value.context_chunks) = TOP_K_CHUNKS
       /\ chats[other].pc = "embedded"

(* C29: every answer_question call that has begun (Idle) eventually is     *)
(* Completed: it has returned an Answer or raised.  The post to the model  *)
(* has a timeout, so it returns or raises too.                             *)
C29_RequestsComplete ==
    \A r \in Questions : (chats[r].pc = "idle") ~> (chats[r].pc = "completed")

\* a request whose post timed out has completed, with the fallback answer
C29_Witness ==
    \E r \in Questions :
       /\ chats[r].pc = "completed"
       /\ chats[r].llm = "timeout"
       /\ chats[r].steps = RequestOrder

---------------------------------------------------------------------------
(* Properties of the upload endpoint *)

\* raise HTTPException(status_code=400, ...) reaching the client
Http400 == "HTTPException 400"

\* the last call was an upload of a file the checks of lines 102-113 reject
UploadRejected ==
    /\ result.op = "upload_pdf"
    /\ ~result.args.is_pdf \/ result.args.too_large

(* C30: an upload whose file name does not end in ".pdf", or whose size is *)
(* above the maximum, is answered with status 400, and nothing of it is    *)
(* saved, chunked, embedded or indexed.                                    *)
C30_RejectedUploadIs400 ==
    UploadRejected
    => /\ result.raised = Http400
       /\ ~result.args.saved
       /\ ~result.args.chunked
       /\ result.args.built = VectorStoreInit

---------------------------------------------------------------------------
(* The helper modules of the backend.  Each is used on its own: the server *)
(* stays as it was constructed.  datetime.now() is the variable now; time  *)
(* passes between two calls, not during one.                               *)

serverVars == <<storeVars, disk, threadVars, appVars>>

ServerNotUsed ==
    /\ text_index = None
    /\ image_index = None
    /\ chunk_mapping = <<>>
    /\ image_mapping = <<>>
    /\ disk = EmptyDir
    /\ builder = NoBuilder
    /\ searcher = NoSearcher
    /\ rag_service = None
    /\ model_loads = 0
    /\ chats = [c \in ChatIds |-> NoChat]
    /\ api_key = TRUE

\* the 60 seconds of RateLimiter.window_size, of CircuitBreaker's default
\* recovery_timeout and of the TTL the cached function is decorated with
Minute == 60

\* the clock stops here
MaxClock == 120

\* what the clock advances by between two calls
ClockSteps == {Minute \div 2, Minute - 1, Minute}

\* time passes
ClockAdvances(dt) ==
    /\ now + dt <= MaxClock
    /\ now' = now + dt

---------------------------------------------------------------------------
(* circuit_breaker.py *)

\* largest failure_threshold a breaker is constructed with
MaxThreshold == 3

\* last_failure_time = None
NoTime == -1

\* CircuitBreaker.__init__ (last_state_change is only written)
CircuitBreakerInit(failure_threshold, recovery_timeout) ==
    [failure_threshold |-> failure_threshold, recovery_timeout |-> recovery_timeout,
     state |-> "closed", failure_count |-> 0, success_count |-> 0,
     last_failure_time |-> NoTime]

\* _close_circuit
CloseCircuit(b) == [b EXCEPT !.state = "closed", !.failure_count = 0, !.success_count = 0]

\* _open_circuit
OpenCircuit(b) == [b EXCEPT !.state = "open"]

\* _on_success
OnSuccess(b) ==
    LET reset == [b EXCEPT !.failure_count = 0]
    IN IF reset.state # "half_open" THEN reset
       ELSE LET counted == [reset EXCEPT !.success_count = @ + 1]
            IN IF counted.success_count >= 2 THEN CloseCircuit(counted) ELSE counted

\* _on_failure at time t
OnFailure(b, t) ==
    LET counted == [b EXCEPT !.failure_count = @ + 1, !.last_failure_time = t]
    IN IF counted.failure_count >= counted.failure_threshold
       THEN OpenCircuit(counted) ELSE counted

\* _should_attempt_reset at time t
ShouldAttemptReset(b, t) ==
    IF b.last_failure_time = NoTime THEN FALSE
    ELSE t - b.last_failure_time >= b.recovery_timeout

\* the exception of line 46
CircuitOpen == "Exception: circuit breaker is OPEN"

\* call(func) at time t; func returns or raises.  invoked: func was called
BreakerCall(b, t, func) ==
    IF b.state = "open" /\ ~ShouldAttemptReset(b, t)
    THEN [breaker |-> b, raised |-> CircuitOpen, invoked |-> FALSE]
    ELSE LET entered == IF b.state = "open"
                        THEN [b EXCEPT !.state = "half_open", !.success_count = 0]
                        ELSE b
         IN IF func = "returns"
            THEN [breaker |-> OnSuccess(entered), raised |-> NoError, invoked |-> TRUE]
            ELSE [breaker |-> OnFailure(entered, t), raised |-> "Exception", invoked |-> TRUE]

\* what the last call of the breaker was, for the call after it
LastCall(field) == IF result.op = "call" THEN result.args[field] ELSE 0

InitBreaker ==
    /\ ServerNotUsed
    /\ result = Call("__init__", NoError, None, <<>>)
    /\ now = 0
    /\ \E failure_threshold \in 1..MaxThreshold :
          breaker = CircuitBreakerInit(failure_threshold, Minute)
    /\ limiter = None
    /\ priority_queue = None
    /\ global_cache = None
    /\ task_queue = None
    /\ retry = None

\* breaker.call(func).  The record of the call keeps what the breaker was
\* before it (state, failure_count), the time since the last failure, whether
\* func ran in the half-open state, and two counts kept for the properties:
\* successes, the calls in a row up to this one that ran half-open and
\* returned, and failures, those in a row that ran and raised
CircuitBreakerCall ==
    /\ \E func \in {"returns", "raises"} :
          \E out \in {BreakerCall(breaker, now, func)} :
             /\ breaker' = out.breaker
             /\ result' =
                  Call("call", out.raised, None,
                       [state |-> breaker.state,
                        failure_count |-> breaker.failure_count,
                        rested |-> ShouldAttemptReset(breaker, now),
                        invoked |-> out.invoked,
                        half_open |-> out.invoked /\ breaker.state # "closed",
                        successes |->
                           IF out.invoked /\ breaker.state # "closed" /\ out.raised = NoError
                           THEN (IF breaker.state = "half_open" THEN LastCall("successes") ELSE 0) + 1
                           ELSE 0,
                        failures |->
                           IF ~out.invoked THEN LastCall("failures")
                           ELSE IF out.raised = NoError THEN 0
                           ELSE LastCall("failures") + 1])
    /\ UNCHANGED <<serverVars, now, limiter, priority_queue, global_cache, task_queue, retry>>

\* time passes between two calls of the breaker
BreakerWaits ==
    /\ \E dt \in ClockSteps : ClockAdvances(dt)
    /\ UNCHANGED <<serverVars, result, breaker, limiter, priority_queue, global_cache,
                   task_queue, retry>>

NextBreaker == CircuitBreakerCall \/ BreakerWaits

SpecBreaker == InitBreaker /\ [][NextBreaker]_vars

---------------------------------------------------------------------------
(* Properties of the circuit breaker *)

\* the last call of the breaker ran func, and func raised
CallFailed == result.op = "call" /\ result.args.invoked /\ result.raised # NoError

(* C31: a call that fails while the breaker is half-open puts it back to   *)
(* open, however many calls succeeded half-open before it.                 *)
C31_HalfOpenFailureReopens ==
    (CallFailed /\ result.args.half_open) => breaker.state = "open"

\* the same for the first call after the recovery timeout only
C31_FirstProbeFailureReopens ==
    (CallFailed /\ result.args.state = "open") => breaker.state = "open"

(* C32: after failure_threshold failed calls in a row the breaker is open; *)
(* a call made while it is open and the recovery timeout has not passed    *)
(* raises without calling the function and leaves state and failure_count  *)
(* as they were; a call closes the breaker only as the second of two       *)
(* successful half-open calls in a row.                                    *)
C32_OpensAfterThreshold ==
    (result.op = "call" /\ result.args.failures >= breaker.failure_threshold)
    => breaker.state = "open"

C32_OpenRejects ==
    (result.op = "call" /\ result.args.state = "open" /\ ~result.args.rested)
    => /\ result.raised = CircuitOpen
       /\ ~result.args.invoked
       /\ breaker.state = "open"
       /\ breaker.failure_count = result.args.failure_count

C32_ClosesAfterTwoSuccesses ==
    (result.op = "call" /\ result.args.state # "closed" /\ breaker.state = "closed")
    => result.args.successes >= 2

C32_BreakerLifecycle ==
    /\ C32_OpensAfterThreshold
    /\ C32_OpenRejects
    /\ C32_ClosesAfterTwoSuccesses

---------------------------------------------------------------------------
(* rate_limiter.py *)

\* largest requests_per_minute a limiter is constructed with
MaxPerMinute == 2

\* is_allowed is not called any more once it has answered True this often
MaxGranted == 4

\* the client ids (hosts) and user ids of the callers
ClientIds == {"a", "b"}

\* user_id = None, or any user_id that is false ("")
NoUser == ""

\* the two dictionaries of a limiter
Stores == {"requests", "user_requests"}

\* RateLimiter.__init__: two defaultdict(list).  granted is not an attribute
\* of the class: the times at which is_allowed answered True, per dictionary
\* and id, kept for the properties
RateLimiterInit(requests_per_minute) ==
    [requests_per_minute |-> requests_per_minute,
     window_size |-> Minute,
     requests |-> [id \in ClientIds |-> <<>>],
     user_requests |-> [id \in ClientIds |-> <<>>],
     granted |-> [store \in Stores |-> [id \in ClientIds |-> <<>>]]]

\* the comprehension of lines 30-33
InWindow(times, window_start) ==
    SelectSeq(times, LAMBDA req_time : req_time > window_start)

\* max(0, int(wait_seconds))
ResetIn(oldest_request, window_size, t) ==
    IF oldest_request + window_size - t > 0 THEN oldest_request + window_size - t ELSE 0

\* an is_allowed that counts users in the dictionary of the clients
IsAllowedOneStore(l, t, client_id, user_id) ==
    LET check_id == IF user_id # NoUser THEN user_id ELSE client_id
        kept == InWindow(l.requests[check_id], t - l.window_size)
        request_count == Len(kept)
    IN IF request_count >= l.requests_per_minute
       THEN [limiter |-> [l EXCEPT !.requests[check_id] = kept],
             allowed |-> FALSE, remaining |-> 0,
             reset_in_seconds |-> ResetIn(kept[1], l.window_size, t)]
       ELSE [limiter |-> [l EXCEPT !.requests[check_id] = Append(kept, t)],
             allowed |-> TRUE,
             remaining |-> l.requests_per_minute - request_count - 1,
             reset_in_seconds |-> l.window_size]

\* is_allowed(client_id, user_id) at time t
IsAllowed(l, t, client_id, user_id) ==
    LET check_id == IF user_id # NoUser THEN user_id ELSE client_id
        request_store == IF user_id # NoUser THEN "user_requests" ELSE "requests"
        kept == InWindow(l[request_store][check_id], t - l.window_size)
        request_count == Len(kept)
    IN IF request_count >= l.requests_per_minute
       THEN [limiter |-> [l EXCEPT ![request_store][check_id] = kept],
             allowed |-> FALSE, remaining |-> 0,
             reset_in_seconds |-> ResetIn(kept[1], l.window_size, t)]
       ELSE [limiter |-> [l EXCEPT ![request_store][check_id] = Append(kept, t)],
             allowed |-> TRUE,
             remaining |-> l.requests_per_minute - request_count - 1,
             reset_in_seconds |-> l.window_size]

\* how often is_allowed has answered True
GrantedCount ==
    LET n(store, id) == Len(limiter.granted[store][id])
    IN n("requests", "a") + n("requests", "b")
       + n("user_requests", "a") + n("user_requests", "b")

InitLimiter ==
    /\ ServerNotUsed
    /\ result = Call("__init__", NoError, None, <<>>)
    /\ now = 0
    /\ breaker = None
    /\ \E requests_per_minute \in 1..MaxPerMinute :
          limiter = RateLimiterInit(requests_per_minute)
    /\ priority_queue = None
    /\ global_cache = None
    /\ task_queue = None
    /\ retry = None

\* limiter.is_allowed(client_id, user_id)
IsAllowedCall ==
    /\ GrantedCount < MaxGranted
    /\ \E client_id \in ClientIds, user_id \in {NoUser, "a"} :
          \E out \in {IsAllowed(limiter, now, client_id, user_id)} :
             LET check_id == IF user_id # NoUser THEN user_id ELSE client_id
                 store == IF user_id # NoUser THEN "user_requests" ELSE "requests"
             IN /\ limiter' =
                     IF out.allowed
                     THEN [out.limiter EXCEPT !.granted[store][check_id] = Append(@, now)]
                     ELSE out.limiter
                /\ result' =
                     Call("is_allowed", NoError,
                          [allowed |-> out.allowed, remaining |-> out.remaining,
                           reset_in_seconds |-> out.reset_in_seconds],
                          [client_id |-> client_id, user_id |-> user_id,
                           store |-> store, check_id |-> check_id, at |-> now])
    /\ UNCHANGED <<serverVars, now, breaker, priority_queue, global_cache, task_queue, retry>>

\* time passes between two calls of the limiter
LimiterWaits ==
    /\ \E dt \in ClockSteps : ClockAdvances(dt)
    /\ UNCHANGED <<serverVars, result, breaker, limiter, priority_queue, global_cache,
                   task_queue, retry>>

NextLimiter == IsAllowedCall \/ LimiterWaits

SpecLimiter == InitLimiter /\ [][NextLimiter]_vars

---------------------------------------------------------------------------
(* Properties of the rate limiter *)

\* no window of window_size seconds (open at its start) holds more than
\* requests_per_minute of the times: the time requests_per_minute places
\* after a time is at least window_size later
WithinRate(l, times) ==
    \A i \in 1..Len(times) :
       i + l.requests_per_minute <= Len(times)
       => times[i + l.requests_per_minute] - times[i] >= l.window_size

\* what an id has left in the current window of a dictionary
Quota(l, store, id, t) ==
    l.requests_per_minute - Len(InWindow(l[store][id], t - l.window_size))

(* C33: for every id the calls is_allowed answered True never number more  *)
(* than requests_per_minute within window_size seconds; a call answered    *)
(* False is not recorded; and a call leaves alone what every other id has  *)
(* left, the same string in the other dictionary (client id, user id)      *)
(* included.                                                               *)
C33_RateLimited ==
    [][ (result'.op = "is_allowed" /\ now' = now)
        => /\ \A store \in Stores, id \in ClientIds :
                 /\ WithinRate(limiter', limiter'.granted[store][id])
                 /\ <<store, id>> # <<result'.args.store, result'.args.check_id>>
                    => /\ limiter'[store][id] = limiter[store][id]
                       /\ Quota(limiter', store, id, now) = Quota(limiter, store, id, now)
           /\ ~result'.value.allowed
              => /\ limiter'[result'.args.store][result'.args.check_id]
                      = InWindow(limiter[result'.args.store][result'.args.check_id],
                                 now - limiter.window_size)
                 /\ Quota(limiter', result'.args.store, result'.args.check_id, now)
                      = Quota(limiter, result'.args.store, result'.args.check_id, now)
                 /\ Quota(limiter', result'.args.store, result'.args.check_id, now) = 0
           /\ result'.value.allowed
              => Quota(limiter', result'.args.store, result'.args.check_id, now)
                   = Quota(limiter, result'.args.store, result'.args.check_id, now) - 1
      ]_vars

\* user "a" was served at 0 and at 30 and refused at 59, client "a", the
\* same string, was served at 59, and at 60, the first window over, user "a"
\* is served again
C33_Witness ==
    /\ result.op = "is_allowed"
    /\ result.value.allowed
    /\ result.args.store = "user_requests"
    /\ result.args.at = Minute
    /\ limiter.granted["user_requests"]["a"] = <<0, Minute \div 2, Minute>>
    /\ limiter.granted["requests"]["a"] = <<Minute \div 2>>
    /\ limiter.requests_per_minute = 2

---------------------------------------------------------------------------
(* queue.py: PriorityQueue, a list kept as a heap by heapq *)

\* QueuedTask objects are not constructed any more after this many
MaxEnqueued == 5

\* class Priority: CRITICAL = 0, HIGH = 1, MEDIUM = 2, LOW = 3
Priorities == {0, 1, 2, 3}

\* QueuedTask.__init__: _order is the class counter at construction
QueuedTask(priority, task_id, counter) ==
    [priority |-> priority, task_id |-> task_id, order |-> counter]

\* a __lt__ that compares the priorities only
QueuedTaskLtByPriority(self, other) == self.priority < other.priority

\* QueuedTask.__lt__
QueuedTaskLt(self, other) ==
    IF self.priority = other.priority THEN self.order < other.order
    ELSE self.priority < other.priority

\* heapq._siftdown(heap, startpos, pos), newitem taken out of heap[pos];
\* positions count from 0
RECURSIVE SiftDown(_, _, _, _)
SiftDown(heap, startpos, pos, newitem) ==
    LET parentpos == (pos - 1) \div 2
    IN IF pos > startpos /\ QueuedTaskLt(newitem, heap[parentpos + 1])
       THEN SiftDown([heap EXCEPT ![pos + 1] = heap[parentpos + 1]], startpos, parentpos, newitem)
       ELSE [heap EXCEPT ![pos + 1] = newitem]

\* heapq._siftup(heap, pos): the smaller child moves up until a leaf is
\* reached, then newitem sifts down from there
RECURSIVE SiftUp(_, _, _, _)
SiftUp(heap, startpos, pos, newitem) ==
    LET endpos == Len(heap)
        leftpos == 2 * pos + 1
        rightpos == leftpos + 1
        childpos == IF rightpos < endpos /\ ~QueuedTaskLt(heap[leftpos + 1], heap[rightpos + 1])
                    THEN rightpos ELSE leftpos
    IN IF leftpos < endpos
       THEN SiftUp([heap EXCEPT ![pos + 1] = heap[childpos + 1]], startpos, childpos, newitem)
       ELSE SiftDown([heap EXCEPT ![pos + 1] = newitem], startpos, pos, newitem)

\* heapq.heappush(heap, item)
HeapPush(heap, item) == SiftDown(Append(heap, item), 0, Len(heap), item)

\* heapq.heappop(heap) of a heap that is not empty
HeapPop(heap) ==
    LET lastelt == heap[Len(heap)]
        rest == SubSeq(heap, 1, Len(heap) - 1)
    IN IF rest = <<>> THEN [item |-> lastelt, heap |-> rest]
       ELSE [item |-> rest[1], heap |-> SiftUp([rest EXCEPT ![1] = lastelt], 0, 0, lastelt)]

\* PriorityQueue.__init__, and QueuedTask._counter when the module is loaded
PriorityQueueInit == [queue |-> <<>>, counter |-> 0]

InitQueue ==
    /\ ServerNotUsed
    /\ result = Call("__init__", NoError, None, <<>>)
    /\ now = 0
    /\ breaker = None
    /\ limiter = None
    /\ priority_queue = PriorityQueueInit
    /\ global_cache = None
    /\ task_queue = None
    /\ retry = None

\* enqueue(task_id, func, priority); the caller names the task after its number
Enqueue ==
    /\ priority_queue.counter < MaxEnqueued
    /\ \E priority \in Priorities :
          LET task == QueuedTask(priority, priority_queue.counter, priority_queue.counter)
          IN /\ priority_queue' = [queue |-> HeapPush(priority_queue.queue, task),
                                   counter |-> priority_queue.counter + 1]
             /\ result' = Call("enqueue", NoError, None,
                               [before |-> priority_queue.queue, task |-> task])
    /\ UNCHANGED <<serverVars, now, breaker, limiter, global_cache, task_queue, retry>>

\* dequeue()
Dequeue ==
    /\ IF priority_queue.queue = <<>>
       THEN /\ result' = Call("dequeue", NoError, None, [before |-> priority_queue.queue])
            /\ UNCHANGED priority_queue
       ELSE \E popped \in {HeapPop(priority_queue.queue)} :
               /\ priority_queue' = [priority_queue EXCEPT !.queue = popped.heap]
               /\ result' = Call("dequeue", NoError, popped.item,
                                 [before |-> priority_queue.queue])
    /\ UNCHANGED <<serverVars, now, breaker, limiter, global_cache, task_queue, retry>>

\* peek()
Peek ==
    /\ result' = Call("peek", NoError,
                      IF priority_queue.queue = <<>> THEN None ELSE priority_queue.queue[1],
                      [before |-> priority_queue.queue])
    /\ UNCHANGED <<serverVars, now, breaker, limiter, priority_queue, global_cache,
                   task_queue, retry>>

NextQueue == Enqueue \/ Dequeue \/ Peek

SpecQueue == InitQueue /\ [][NextQueue]_vars

---------------------------------------------------------------------------
(* Properties of the priority queue *)

\* the tasks of a list
Queued(queue) == {queue[i] : i \in 1..Len(queue)}

\* task comes before every other task of the list: smaller Priority value,
\* or the same and enqueued earlier (tasks are numbered as they are enqueued)
First(task, queue) ==
    /\ task \in Queued(queue)
    /\ \A other \in Queued(queue) \ {task} :
          \/ task.priority < other.priority
          \/ task.priority = other.priority /\ task.task_id < other.task_id

(* C34: after any enqueues and dequeues, dequeue returns the queued task   *)
(* of the smallest Priority value and, among those, the one enqueued       *)
(* earliest, and removes it; peek returns that task and removes nothing;   *)
(* on an empty queue both return None.                                     *)
C34_DequeueOrder ==
    result.op \in {"dequeue", "peek"}
    => IF result.args.before = <<>>
       THEN result.value = None /\ priority_queue.queue = <<>>
       ELSE /\ First(result.value, result.args.before)
            /\ result.op = "peek" => priority_queue.queue = result.args.before
            /\ result.op = "dequeue"
               => /\ Queued(priority_queue.queue) = Queued(result.args.before) \ {result.value}
                  /\ Len(priority_queue.queue) = Len(result.args.before) - 1

\* a dequeue, not the first one, returned a task that was enqueued after a
\* task of larger Priority value and before a task of its own priority
C34_Witness ==
    /\ result.op = "dequeue"
    /\ result.args.before # <<>>
    /\ Len(result.args.before) < priority_queue.counter
    /\ \E other \in Queued(priority_queue.queue) :
          other.task_id < result.value.task_id /\ other.priority > result.value.priority
    /\ \E other \in Queued(priority_queue.queue) :
          other.task_id > result.value.task_id /\ other.priority = result.value.priority

---------------------------------------------------------------------------
(* cache.py: the global cache and the cache_result decorator around one    *)
(* function, lookup(x), decorated with cache_result(ttl_seconds=60)        *)

\* the arguments lookup is called with
CachedArgs == {"p", "q"}

\* what lookup returns, as Python prints it; lookup may return another
\* value the next time it runs
PyNone == "None"
Returned == {PyNone, "0", "'x'"}

\* Cache.__init__: an empty dictionary
CacheInit == <<>>

\* cache_key(func.__name__, *args): the md5 of the printed arguments, one
\* key per function name and printed argument tuple
CacheKey(name, arg) == <<name, arg>>

\* CacheEntry.is_expired at time t
IsExpired(entry, t) == t > entry.created_at + entry.ttl_seconds

\* Cache.set at time t
CacheSet(cache, key, value, ttl_seconds, t) ==
    [k \in DOMAIN cache \cup {key} |->
        IF k = key THEN [value |-> value, created_at |-> t, ttl_seconds |-> ttl_seconds]
        ELSE cache[k]]

\* Cache.get at time t: an expired entry is deleted
CacheGet(cache, key, t) ==
    IF key \notin DOMAIN cache THEN [cache |-> cache, value |-> PyNone]
    ELSE IF IsExpired(cache[key], t)
         THEN [cache |-> [k \in DOMAIN cache \ {key} |-> cache[k]], value |-> PyNone]
         ELSE [cache |-> cache, value |-> cache[key].value]

\* wrapper(arg) of cache_result(ttl_seconds)(lookup) at time t; returned is
\* what lookup returns if it is called
CachedCall(cache, arg, ttl_seconds, t, returned) ==
    LET key == CacheKey("lookup", arg)
        got == CacheGet(cache, key, t)
    IN IF got.value # PyNone
       THEN [cache |-> got.cache, value |-> got.value, invoked |-> FALSE]
       ELSE [cache |-> CacheSet(got.cache, key, returned, ttl_seconds, t),
             value |-> returned, invoked |-> TRUE]

InitCache ==
    /\ ServerNotUsed
    /\ result = Call("__init__", NoError, None, <<>>)
    /\ now = 0
    /\ breaker = None
    /\ limiter = None
    /\ priority_queue = None
    /\ global_cache = CacheInit
    /\ task_queue = None
    /\ retry = None

\* what the cache holds for a key before a call: an entry that is not expired
\* (fresh), its value and its age
Held(key) ==
    IF key \in DOMAIN global_cache
    THEN [fresh |-> ~IsExpired(global_cache[key], now),
          stored |-> global_cache[key].value,
          age |-> now - global_cache[key].created_at]
    ELSE [fresh |-> FALSE, stored |-> PyNone, age |-> 0]

\* lookup(arg), through the wrapper
CachedLookup ==
    /\ \E arg \in CachedArgs, returned \in Returned :
          \E out \in {CachedCall(global_cache, arg, Minute, now, returned)} :
             /\ global_cache' = out.cache
             /\ result' = Call("lookup", NoError, out.value,
                               [arg |-> arg, invoked |-> out.invoked,
                                held |-> Held(CacheKey("lookup", arg))])
    /\ UNCHANGED <<serverVars, now, breaker, limiter, priority_queue, task_queue, retry>>

\* _global_cache.get(key)
CacheGetCall ==
    /\ \E arg \in CachedArgs :
          \E out \in {CacheGet(global_cache, CacheKey("lookup", arg), now)} :
             /\ global_cache' = out.cache
             /\ result' = Call("get", NoError, out.value,
                               [arg |-> arg, invoked |-> FALSE,
                                held |-> Held(CacheKey("lookup", arg))])
    /\ UNCHANGED <<serverVars, now, breaker, limiter, priority_queue, task_queue, retry>>

\* time passes between two calls
CacheWaits ==
    /\ \E dt \in ClockSteps : ClockAdvances(dt)
    /\ UNCHANGED <<serverVars, result, breaker, limiter, priority_queue, global_cache,
                   task_queue, retry>>

NextCache == CachedLookup \/ CacheGetCall \/ CacheWaits

SpecCache == InitCache /\ [][NextCache]_vars

---------------------------------------------------------------------------
(* Properties of the cache *)

(* C35: while the entry of its arguments is not expired, a call of the     *)
(* wrapped function returns the stored result without running the          *)
(* function, whatever value is stored; and get returns no value whose TTL  *)
(* has passed.                                                             *)
C35_CalledOncePerEntry ==
    /\ (result.op = "lookup" /\ result.args.held.fresh)
       => /\ ~result.args.invoked
          /\ result.value = result.args.held.stored
    /\ (result.op = "get" /\ result.value # PyNone)
       => /\ result.args.held.fresh
          /\ result.args.held.age <= Minute

\* the same for the entries that do not hold None
C35_CalledOncePerValue ==
    /\ (result.op = "lookup" /\ result.args.held.fresh /\ result.args.held.stored # PyNone)
       => /\ ~result.args.invoked
          /\ result.value = result.args.held.stored
    /\ (result.op = "get" /\ result.value # PyNone)
       => /\ result.args.held.fresh
          /\ result.args.held.age <= Minute

---------------------------------------------------------------------------
(* task_queue.py: TaskQueue, its asyncio.Queue and its worker coroutines   *)

\* Task objects are not constructed any more after this many
MaxTasks == 3

\* largest max_workers a TaskQueue is constructed with
MaxWorkers == 2

\* the task ids the callers use; an id may be used again
TaskIds == {"t1", "t2"}

\* the functions given to enqueue: one that returns, one that raises
TaskFuncs == {"returns", "raises"}

\* Task.__init__
Task(task_id, func) ==
    [task_id |-> task_id, func |-> func, status |-> "pending", result |-> PyNone,
     error |-> PyNone]

\* TaskQueue.__init__: no asyncio.Queue and no worker yet.  objects are the
\* Task objects constructed so far, in the order of construction; tasks and
\* queue refer to them by their place in it
TaskQueueInit(max_workers) ==
    [max_workers |-> max_workers, initialized |-> FALSE, objects |-> <<>>,
     tasks |-> <<>>, queue |-> <<>>,
     workers |-> [w \in 1..max_workers |-> [pc |-> "not started", task |-> 0]]]

InitTasks ==
    /\ ServerNotUsed
    /\ result = Call("__init__", NoError, None, <<>>)
    /\ now = 0
    /\ breaker = None
    /\ limiter = None
    /\ priority_queue = None
    /\ global_cache = None
    /\ \E max_workers \in 1..MaxWorkers : task_queue = TaskQueueInit(max_workers)
    /\ retry = None

\* initialize(): the asyncio.Queue, and max_workers worker tasks that will
\* wait in queue.get()
Initialize ==
    /\ ~task_queue.initialized
    /\ task_queue' = [task_queue EXCEPT
                         !.initialized = TRUE,
                         !.workers = [w \in DOMAIN @ |-> [pc |-> "get", task |-> 0]]]
    /\ result' = Call("initialize", NoError, None, <<>>)
    /\ UNCHANGED <<serverVars, now, breaker, limiter, priority_queue, global_cache, retry>>

\* enqueue(task_id, func): the Task is constructed and entered in tasks, then
\* put on the queue; before initialize the queue is None and put fails
EnqueueTask ==
    /\ Len(task_queue.objects) < MaxTasks
    /\ \E task_id \in TaskIds, func \in TaskFuncs :
          LET n == Len(task_queue.objects) + 1
              entered == [task_queue EXCEPT
                             !.objects = Append(@, Task(task_id, func)),
                             !.tasks = [id \in DOMAIN @ \cup {task_id} |->
                                           IF id = task_id THEN n ELSE @[id]]]
          IN IF ~task_queue.initialized
             THEN /\ task_queue' = entered
                  /\ result' = Call("enqueue", "AttributeError", None,
                                    [task_id |-> task_id, task |-> n])
             ELSE /\ task_queue' = [entered EXCEPT !.queue = Append(@, n)]
                  /\ result' = Call("enqueue", NoError, [task_id |-> task_id],
                                    [task_id |-> task_id, task |-> n])
    /\ UNCHANGED <<serverVars, now, breaker, limiter, priority_queue, global_cache, retry>>

\* _worker: queue.get() returns the oldest task; Task.execute up to the call
\* of func (status RUNNING)
WorkerStarts(w) ==
    /\ w \in DOMAIN task_queue.workers
    /\ task_queue.workers[w].pc = "get"
    /\ task_queue.queue # <<>>
    /\ LET n == Head(task_queue.queue)
       IN task_queue' = [task_queue EXCEPT
                            !.queue = Tail(@),
                            !.objects[n].status = "running",
                            !.workers[w] = [pc |-> "execute", task |-> n]]
    /\ UNCHANGED <<serverVars, result, now, breaker, limiter, priority_queue, global_cache,
                   retry>>

\* a Task.execute without the except clause: the exception of func leaves
\* the task RUNNING and ends the worker
WorkerFinishesUncaught(w) ==
    /\ w \in DOMAIN task_queue.workers
    /\ task_queue.workers[w].pc = "execute"
    /\ LET n == task_queue.workers[w].task
       IN task_queue' =
             IF task_queue.objects[n].func = "returns"
             THEN [task_queue EXCEPT !.objects[n].status = "completed",
                                     !.objects[n].result = "0",
                                     !.workers[w] = [pc |-> "get", task |-> 0]]
             ELSE [task_queue EXCEPT !.workers[w] = [pc |-> "ended", task |-> n]]
    /\ UNCHANGED <<serverVars, result, now, breaker, limiter, priority_queue, global_cache,
                   retry>>

\* func returns or raises: the rest of Task.execute (COMPLETED with the
\* result, or FAILED with str(e)), task_done, and the worker's next get
WorkerFinishes(w) ==
    /\ w \in DOMAIN task_queue.workers
    /\ task_queue.workers[w].pc = "execute"
    /\ LET n == task_queue.workers[w].task
       IN task_queue' =
             IF task_queue.objects[n].func = "returns"
             THEN [task_queue EXCEPT !.objects[n].status = "completed",
                                     !.objects[n].result = "0",
                                     !.workers[w] = [pc |-> "get", task |-> 0]]
             ELSE [task_queue EXCEPT !.objects[n].status = "failed",
                                     !.objects[n].error = "'boom'",
                                     !.workers[w] = [pc |-> "get", task |-> 0]]
    /\ UNCHANGED <<serverVars, result, now, breaker, limiter, priority_queue, global_cache,
                   retry>>

NextTasks ==
    \/ Initialize
    \/ EnqueueTask
    \/ \E w \in 1..MaxWorkers : WorkerStarts(w)
    \/ \E w \in 1..MaxWorkers : WorkerFinishes(w)

SpecTasks == InitTasks /\ [][NextTasks]_vars

\* the event loop runs every worker that can run, and the functions given
\* to enqueue return or raise
SpecTasksFair ==
    SpecTasks /\ \A w \in 1..MaxWorkers : WF_vars(WorkerStarts(w)) /\ WF_vars(WorkerFinishes(w))

---------------------------------------------------------------------------
(* Properties of the task queue *)

\* the moves of a task's status
StatusMoves == {<<"pending", "running">>, <<"running", "completed">>, <<"running", "failed">>}

\* task n was put on the queue (enqueued after initialize)
OnQueue(n) ==
    /\ n <= Len(task_queue.objects)
    /\ \/ task_queue.objects[n].status # "pending"
       \/ \E i \in 1..Len(task_queue.queue) : task_queue.queue[i] = n

\* task n has ended: COMPLETED with a result and no error, or FAILED with
\* the error of a function that raised
Ended(n) ==
    /\ n <= Len(task_queue.objects)
    /\ \/ /\ task_queue.objects[n].status = "completed"
          /\ task_queue.objects[n].func = "returns"
          /\ task_queue.objects[n].error = PyNone
       \/ /\ task_queue.objects[n].status = "failed"
          /\ task_queue.objects[n].func = "raises"
          /\ task_queue.objects[n].error # PyNone

(* C36: the status of a task moves only from PENDING to RUNNING and from   *)
(* RUNNING to COMPLETED or FAILED; under fair scheduling every task        *)
(* enqueued after initialize ends COMPLETED or FAILED, a failed one with   *)
(* its error, also when tasks before it raised.                            *)
C36_TasksEnd ==
    /\ [][ \A n \in 1..Len(task_queue.objects) :
              \/ task_queue'.objects[n].status = task_queue.objects[n].status
              \/ <<task_queue.objects[n].status, task_queue'.objects[n].status>> \in StatusMoves
         ]_vars
    /\ \A n \in 1..MaxTasks : OnQueue(n) ~> Ended(n)

\* a queue of one worker: its first task has failed, and the worker has
\* completed a task enqueued after it
C36_Witness ==
    /\ task_queue.max_workers = 1
    /\ Len(task_queue.objects) >= 2
    /\ task_queue.objects[1].status = "failed"
    /\ Ended(1)
    /\ task_queue.objects[2].status = "completed"

---------------------------------------------------------------------------
(* error_handler.py: calls of one function wrapped by retry_on_failure     *)

\* largest max_attempts the function is decorated with
MaxAttempts == 3

\* the calls of the wrapped function that are made (two coroutines)
RetryCalls == {"c1", "c2"}

\* what an invocation of the function does: it returns a value, or raises;
\* the exception of invocation number i is written <<"error", i>>
Returns(value) == <<"return", value>>
Raises(i) == <<"error", i>>

\* a call of the wrapper before its first statement; invoked lists what the
\* invocations of the function did
RetryIdle(max_attempts) ==
    [max_attempts |-> max_attempts, pc |-> "idle", attempt |-> 0, invoked |-> <<>>,
     outcome |-> <<>>]

InitRetry ==
    /\ ServerNotUsed
    /\ result = Call("__init__", NoError, None, <<>>)
    /\ now = 0
    /\ breaker = None
    /\ limiter = None
    /\ priority_queue = None
    /\ global_cache = None
    /\ task_queue = None
    /\ \E max_attempts \in 1..MaxAttempts :
          retry = [c \in RetryCalls |-> RetryIdle(max_attempts)]

\* the wrapper is called: for attempt in range(max_attempts)
RetryCalled(c) ==
    /\ retry[c].pc = "idle"
    /\ retry' = [retry EXCEPT ![c].pc = "attempt"]
    /\ UNCHANGED <<serverVars, result, now, breaker, limiter, priority_queue, global_cache,
                   task_queue>>

\* a wrapper that gives up quietly: after the last attempt it returns None
RetryAttemptSwallowing(c) ==
    /\ retry[c].pc = "attempt"
    /\ \E returned \in Returned \cup {"raises"} :
          LET i == Len(retry[c].invoked) + 1
          IN retry' = [retry EXCEPT ![c] =
                IF returned # "raises"
                THEN [@ EXCEPT !.pc = "returned", !.invoked = Append(@, Returns(returned)),
                               !.outcome = Returns(returned)]
                ELSE IF @.attempt = @.max_attempts - 1
                THEN [@ EXCEPT !.pc = "returned", !.invoked = Append(@, Raises(i)),
                               !.outcome = Returns(PyNone)]
                ELSE [@ EXCEPT !.attempt = @ + 1, !.invoked = Append(@, Raises(i))]]
    /\ UNCHANGED <<serverVars, result, now, breaker, limiter, priority_queue, global_cache,
                   task_queue>>

\* one turn of the loop: the function is invoked; its value is returned, or
\* its exception is raised again on the last attempt and followed by
\* sleep(delay) and the next attempt otherwise
RetryAttempt(c) ==
    /\ retry[c].pc = "attempt"
    /\ \E returned \in Returned \cup {"raises"} :
          LET i == Len(retry[c].invoked) + 1
          IN retry' = [retry EXCEPT ![c] =
                IF returned # "raises"
                THEN [@ EXCEPT !.pc = "returned", !.invoked = Append(@, Returns(returned)),
                               !.outcome = Returns(returned)]
                ELSE IF @.attempt = @.max_attempts - 1
                THEN [@ EXCEPT !.pc = "raised", !.invoked = Append(@, Raises(i)),
                               !.outcome = Raises(i)]
                ELSE [@ EXCEPT !.attempt = @ + 1, !.invoked = Append(@, Raises(i))]]
    /\ UNCHANGED <<serverVars, result, now, breaker, limiter, priority_queue, global_cache,
                   task_queue>>

NextRetry == \E c \in RetryCalls : RetryCalled(c) \/ RetryAttempt(c)

SpecRetry == InitRetry /\ [][NextRetry]_vars

---------------------------------------------------------------------------
(* Properties of retry_on_failure *)

\* invocation i of call c raised
Raised(c, i) == retry[c].invoked[i] = Raises(i)

(* C37: a call of a function wrapped with retry_on_failure(max_attempts =  *)
(* n) invokes it at most n times; every invocation but the last one        *)
(* raised; the call returns what the first invocation that returned        *)
(* returned, and raises, with the exception of the last invocation, only   *)
(* when all n invocations raised.                                          *)
C37_RetryBounded ==
    \A c \in RetryCalls :
       LET call == retry[c]
           n == Len(call.invoked)
       IN /\ n <= call.max_attempts
          /\ \A i \in 1..(n - 1) : Raised(c, i)
          /\ call.pc = "returned"
             => /\ n >= 1
                /\ ~Raised(c, n)
                /\ call.outcome = call.invoked[n]
          /\ call.pc = "raised"
             => /\ n = call.max_attempts
                /\ Raised(c, n)
                /\ call.outcome = Raises(n)
          /\ call.pc \in {"idle", "attempt"}
             => /\ call.outcome = <<>>
                /\ \A i \in 1..n : Raised(c, i)
          /\ (n = call.max_attempts /\ Raised(c, n)) => call.pc = "raised"

\* of two calls with more than one attempt, one returned the value of its
\* last allowed invocation and the other raised after as many
C37_Witness ==
    /\ retry["c1"].max_attempts > 1
    /\ retry["c1"].pc = "returned"
    /\ Len(retry["c1"].invoked) = retry["c1"].max_attempts
    /\ retry["c2"].pc = "raised"
    /\ Len(retry["c2"].invoked) = retry["c2"].max_attempts

============================================================================
